---- MODULE Spec2Model ----
(***************************************************************************)
(* A model of LeanCheck for Python (src/src/leancheck): tier generators    *)
(* (iitertools.py), raw value generators (gen.py), the Enumerator class    *)
(* with its combinators and its registry of enumerators (enumerator.py).   *)
(*                                                                         *)
(* An Enumerator is a recipe: a record describing the callable `tiers`.    *)
(* Calling `tiers()` (Open) builds a generator object, a record holding    *)
(* the generator's local variables and position; `next()` on it (Next)     *)
(* returns the yielded tier, or StopIteration, and the generator's new     *)
(* state.                                                                  *)
(***************************************************************************)
EXTENDS Integers, Sequences, FiniteSets, TLC

\* ------------------------------------------------------------------ bounds
MaxTiers == 2      \* tiers of a raw input stream
MaxWidth == 2      \* values in one tier of a raw input stream
MaxPull == 4       \* next() calls one consumer makes
MaxFusc == 40      \* arguments of fusc

\* ------------------------------------------------------------------ values
\* Python's False and True, kept apart from the integers 0 and 1
PyFalse == 100
PyTrue == 101

Range(s) == {s[i] : i \in 1..Len(s)}

RECURSIVE Concat(_)
\* the concatenation of a sequence of sequences (itertools.chain, +=)
Concat(ss) == IF ss = <<>> THEN <<>> ELSE Head(ss) \o Concat(Tail(ss))

\* ii.flatten: the values of the tiers, in tier order
Flatten(xss) == Concat(xss)

\* the two-argument functions handed to pproduct as with_f
Apply2(f, x, y) ==
    CASE f = "pair" -> <<x, y>>          \* lambda x, y: (x, y)
      [] f = "cons" -> <<x>> \o y        \* lambda x, xs: [x] + xs

\* an increasing list: all(x < y for x, y in zip(xs, xs[1:]))
StrictlyIncreasing(xs) == \A i \in 1..(Len(xs) - 1) : xs[i] < xs[i + 1]

\* the same test on a list of frozensets, whose < is proper inclusion
StrictlyIncluded(xs) ==
    \A i \in 1..(Len(xs) - 1) :
        xs[i].frozen \subseteq xs[i + 1].frozen /\ xs[i].frozen # xs[i + 1].frozen

\* the one-argument functions handed to map
Apply1(f, x) ==
    CASE f = "flat" -> <<x[1]>> \o x[2]  \* lambda t: (t[0],) + t[1]
      [] f = "double" -> x * 2           \* lambda x: x*2
      [] f = "set" -> Range(x)           \* set
      [] f = "invsq" -> 12 \div (x * x)   \* lambda x: 12 // (x * x)
      [] f = "pick" -> <<10, 20, 30>>[(x % 3) + 1]   \* lambda x: [10, 20, 30][x]
      [] f = "second" -> x[2]            \* lambda vs: vs[1]
      [] f = "quotient" -> x[1] \div x[2]   \* ty(*vs) of cons, ty = lambda n, d: n // d
      [] f = "first" -> x[1]             \* lambda xs: next(iter(xs))
      [] f = "join" -> Concat(x)         \* lambda cs: "".join(cs)
      [] f = "frozenset" -> [frozen |-> x]                  \* frozenset
      [] f = "range" -> [start |-> x[1], stop |-> x[2]]     \* range(*vs)
      [] f = "complex" -> [real |-> x[1], imag |-> x[2]]    \* complex(*vs)

\* the predicates handed to that
Holds1(p, x) ==
    CASE p = "even" -> x % 2 = 0         \* lambda x: x % 2 == 0
      [] p = "positive" -> x > 0         \* lambda x: x > 0
      [] p = "increasing" -> StrictlyIncreasing(x)
      [] p = "included" -> StrictlyIncluded(x)     \* the test of sets, on frozensets
      [] p = "divides" -> 12 % (x * x) = 0   \* lambda x: 12 % (x * x) == 0
      [] p = "leading" -> x[1] > 0       \* lambda xs: next(iter(xs)) > 0

RECURSIVE SetIter(_)
\* the values of a set in the order iterating it gives them: for a set of
\* booleans or of integers from 0 to 7, whose hashes fill different slots of
\* the table, increasing
SetIter(s) ==
    IF s = {} THEN <<>>
    ELSE LET m == CHOOSE x \in s : \A y \in s : x <= y IN <<m>> \o SetIter(s \ {m})

\* dict(zip(s, vs)): the i-th key with the i-th value
DictZip(s, vs) ==
    LET n == IF Len(s) < Len(vs) THEN Len(s) ELSE Len(vs) IN {<<s[i], vs[i]>> : i \in 1..n}

\* the error a function or predicate handed to map or that raises on x, or
\* "none"
Fails1(f, x) ==
    CASE f = "invsq" -> IF x = 0 THEN "ZeroDivisionError" ELSE "none"
      [] f = "pick" -> IF x > 2 \/ x < -3 THEN "IndexError" ELSE "none"
      [] f = "divides" -> IF x = 0 THEN "ZeroDivisionError" ELSE "none"
      [] f = "second" -> IF Len(x) < 2 THEN "IndexError" ELSE "none"
      [] f = "quotient" -> IF x[2] = 0 THEN "ZeroDivisionError" ELSE "none"
      [] f = "first" -> IF x = <<>> THEN "StopIteration" ELSE "none"
      [] f = "leading" -> IF x = <<>> THEN "StopIteration" ELSE "none"
      [] OTHER -> "none"

\* the error of the first value of xs the function fails on, or "none"
FirstFailure(f, xs) ==
    LET bad == {i \in 1..Len(xs) : Fails1(f, xs[i]) # "none"} IN
    IF bad = {} THEN "none"
    ELSE Fails1(f, xs[CHOOSE i \in bad : \A j \in bad : i <= j])

\* [f(x) for x in xs]
MapList(f, xs) == [i \in 1..Len(xs) |-> Apply1(f, xs[i])]

\* [x for x in xs if p(x)]
FilterList(p, xs) == SelectSeq(xs, LAMBDA x : Holds1(p, x))

\* --------------------------------------------------- results of next()
\* StopIteration, a value, or the error raised in the generator: err is
\* "none" unless an error is raised
Stopped(g) == [stop |-> TRUE, val |-> <<>>, g |-> g, err |-> "none"]
Yielded(v, g) == [stop |-> FALSE, val |-> v, g |-> g, err |-> "none"]
Threw(e, g) == [stop |-> TRUE, val |-> <<>>, g |-> g, err |-> e]

\* ------------------------------------------ iterators of values (gen.py)
\* itertools.count(start, step)
Count(start, step) == [k |-> "count", cur |-> start, step |-> step]
\* iter(xs) of a list
ListIter(xs) == [k |-> "listiter", xs |-> xs, pos |-> 0]
\* gen.positive_ints, gen.negative_ints, gen.non_negative_ints
PositiveInts == Count(1, 1)
NegativeInts == Count(-1, -1)
NonNegativeInts == Count(0, 1)
\* a slip: the second generator gives the first value
IntercalateSecondFirst(g1, g2) == [k |-> "intercalate", g1 |-> g1, g2 |-> g2, pc |-> "g2"]
\* ii.intercalate(g1, g2), not started
Intercalate(g1, g2) == [k |-> "intercalate", g1 |-> g1, g2 |-> g2, pc |-> "g1"]
\* gen.ints(), not started
IntsGen == [k |-> "ints", pc |-> "start", inner |-> <<>>]


RECURSIVE GCD(_, _)
\* the greatest common divisor of two naturals
GCD(a, b) == IF b = 0 THEN a ELSE GCD(b, a % b)

\* n / d, a float: kept as the fraction in lowest terms, since two quotients
\* of small integers are the same float exactly when they are the same fraction
Divide(n, d) == LET g == GCD(n, d) IN <<n \div g, d \div g>>

\* -x of a float
Negate(x) == <<-x[1], x[2]>>

\* the float 0.0
FloatZero == <<0, 1>>

RECURSIVE FuscLoop(_, _, _)
\* the loop of gen.fusc: while n, with the accumulators a and b
FuscLoop(a, b, n) ==
    IF n = 0 THEN b
    ELSE IF n % 2 = 0 THEN FuscLoop(a + b, b, n \div 2)
    ELSE FuscLoop(a, b + a, n \div 2)

\* gen.fusc
fusc(n) == FuscLoop(1, 0, n)

\* no call of fusc yet
NoFrame == [arg |-> 0, n |-> 0, a |-> 0, b |-> 0, pc |-> "none", ret |-> 0]

\* gen.fuscs(): (fusc(n) for n in itertools.count(1))
Fuscs == [k |-> "fuscs", n |-> 1]
\* a slip: nothing is dropped
TailKeepsFirst(g) == [k |-> "tail", g |-> g, dropped |-> TRUE]
\* ii.tail(gen): itertools.islice(gen, 1, None)
TailOf(g) == [k |-> "tail", g |-> g, dropped |-> FALSE]
\* gen.positive_floats(): starmap of n / d over zip(fuscs(), tail(fuscs()))
PositiveFloats == [k |-> "starmapdiv", g1 |-> Fuscs, g2 |-> TailOf(Fuscs)]
\* gen.negative_floats(): map(lambda x: -x, positive_floats())
NegativeFloats == [k |-> "mapneg", g |-> PositiveFloats]
\* gen.floats(), not started
FloatsGen == [k |-> "floats", pc |-> "start", inner |-> <<>>]
\* gen.non_negative_floats(), not started
NonNegativeFloatsGen == [k |-> "non_negative_floats", pc |-> "start", inner |-> <<>>]

\* a callable of gen.py, called
\* the characters of a string of the module string, each a string of one
\* character, a string being the list of its character codes
CharsOf(codes) == [i \in 1..Len(codes) |-> <<codes[i]>>]
\* the codes from a to b
CodesTo(a, b) == [i \in 1..(b - a + 1) |-> a + i - 1]
\* string.ascii_lowercase, whitespace, digits, ascii_uppercase, punctuation
Lowercase == CharsOf(CodesTo(97, 122))
Whitespace == CharsOf(<<32, 9, 10, 13, 11, 12>>)
Digits == CharsOf(CodesTo(48, 57))
Uppercase == CharsOf(CodesTo(65, 90))
Punctuation ==
    CharsOf(CodesTo(33, 47) \o CodesTo(58, 64) \o CodesTo(91, 96) \o CodesTo(123, 126))

\* gen.chars, not started
CharsGen ==
    Intercalate(ListIter(Lowercase),
        Intercalate(ListIter(Whitespace),
            Intercalate(ListIter(Digits),
                Intercalate(ListIter(Uppercase), ListIter(Punctuation)))))

CallGen(fn) ==
    CASE fn = "ints" -> IntsGen
      [] fn = "positive_ints" -> PositiveInts
      [] fn = "non_negative_ints" -> NonNegativeInts
      [] fn = "floats" -> FloatsGen
      [] fn = "positive_floats" -> PositiveFloats
      [] fn = "non_negative_floats" -> NonNegativeFloatsGen
      [] fn = "chars" -> CharsGen
      [] fn = "three" -> ListIter(<<3, 1, 7>>)     \* def three(): yield 3; yield 1; yield 7

RECURSIVE VNext(_)
\* next(it) of an iterator of values
VNext(it) ==
    CASE it.k = "count" ->
           Yielded(it.cur, [it EXCEPT !.cur = it.cur + it.step])
      [] it.k = "listiter" ->
           IF it.pos < Len(it.xs)
           THEN Yielded(it.xs[it.pos + 1], [it EXCEPT !.pos = it.pos + 1])
           ELSE Stopped(it)
      [] it.k = "intercalate" ->
          (CASE it.pc = "g1" ->
                  LET r == VNext(it.g1) IN
                  IF r.stop
                  THEN VNext([it EXCEPT !.g1 = r.g, !.pc = "rest2"])
                  ELSE Yielded(r.val, [it EXCEPT !.g1 = r.g, !.pc = "g2"])
             [] it.pc = "g2" ->
                  LET r == VNext(it.g2) IN
                  IF r.stop
                  THEN VNext([it EXCEPT !.g2 = r.g, !.pc = "rest1"])
                  ELSE Yielded(r.val, [it EXCEPT !.g2 = r.g, !.pc = "g1"])
             [] it.pc = "rest2" ->
                  LET r == VNext(it.g2) IN
                  IF r.stop
                  THEN Stopped([it EXCEPT !.g2 = r.g, !.pc = "done"])
                  ELSE Yielded(r.val, [it EXCEPT !.g2 = r.g])
             [] it.pc = "rest1" ->
                  LET r == VNext(it.g1) IN
                  IF r.stop
                  THEN Stopped([it EXCEPT !.g1 = r.g, !.pc = "done"])
                  ELSE Yielded(r.val, [it EXCEPT !.g1 = r.g])
             [] it.pc = "done" -> Stopped(it))
      [] it.k = "ints" ->
          (CASE it.pc = "start" -> Yielded(0, [it EXCEPT !.pc = "zero"])
             [] it.pc = "zero" ->
                  VNext([it EXCEPT !.pc = "rest",
                                   !.inner = <<Intercalate(PositiveInts, NegativeInts)>>])
             [] it.pc = "rest" ->
                  LET r == VNext(it.inner[1]) IN
                  IF r.stop
                  THEN Stopped([it EXCEPT !.inner = <<r.g>>, !.pc = "done"])
                  ELSE Yielded(r.val, [it EXCEPT !.inner = <<r.g>>])
             [] it.pc = "done" -> Stopped(it))
      [] it.k = "fuscs" -> Yielded(fusc(it.n), [it EXCEPT !.n = it.n + 1])
      [] it.k = "tail" ->
          \* the first value of gen is dropped at the first next()
          LET d == IF it.dropped THEN Yielded(0, it.g) ELSE VNext(it.g)
              r == IF d.stop THEN d ELSE VNext(d.g)
          IN  IF r.stop THEN Stopped([it EXCEPT !.g = r.g, !.dropped = TRUE])
              ELSE Yielded(r.val, [it EXCEPT !.g = r.g, !.dropped = TRUE])
      [] it.k = "starmapdiv" ->
          \* zip takes from its first iterator, then from its second
          LET r1 == VNext(it.g1)
              r2 == VNext(it.g2)
          IN  IF r1.stop THEN Stopped([it EXCEPT !.g1 = r1.g])
              ELSE IF r2.stop THEN Stopped([it EXCEPT !.g1 = r1.g, !.g2 = r2.g])
              ELSE Yielded(Divide(r1.val, r2.val), [it EXCEPT !.g1 = r1.g, !.g2 = r2.g])
      [] it.k = "mapneg" ->
          LET r == VNext(it.g) IN
          IF r.stop THEN Stopped([it EXCEPT !.g = r.g])
          ELSE Yielded(Negate(r.val), [it EXCEPT !.g = r.g])
      [] it.k = "floats" ->
          (CASE it.pc = "start" -> Yielded(FloatZero, [it EXCEPT !.pc = "zero"])
             [] it.pc = "zero" ->
                  VNext([it EXCEPT !.pc = "rest",
                                   !.inner = <<Intercalate(PositiveFloats, NegativeFloats)>>])
             [] it.pc = "rest" ->
                  LET r == VNext(it.inner[1]) IN
                  IF r.stop
                  THEN Stopped([it EXCEPT !.inner = <<r.g>>, !.pc = "done"])
                  ELSE Yielded(r.val, [it EXCEPT !.inner = <<r.g>>])
             [] it.pc = "done" -> Stopped(it))
      [] it.k = "non_negative_floats" ->
          (CASE it.pc = "start" -> Yielded(FloatZero, [it EXCEPT !.pc = "zero"])
             [] it.pc = "zero" ->
                  VNext([it EXCEPT !.pc = "rest", !.inner = <<PositiveFloats>>])
             [] it.pc = "rest" ->
                  LET r == VNext(it.inner[1]) IN
                  IF r.stop
                  THEN Stopped([it EXCEPT !.inner = <<r.g>>, !.pc = "done"])
                  ELSE Yielded(r.val, [it EXCEPT !.inner = <<r.g>>])
             [] it.pc = "done" -> Stopped(it))

\* ------------------------------------------------ Enumerators (recipes)
\* Enumerator(lambda: (xs for xs in tiers))
Raw(tiers) == [k |-> "raw", tiers |-> tiers]
\* Enumerator(lambda: itertools.chain(tiers, itertools.repeat([]))): the tiers
\* and then empty tiers without end
Endless(tiers) == [k |-> "endless", tiers |-> tiers]
\* Enumerator.empty()
Empty == Raw(<<>>)
\* the arguments of Enumerator.choices: a callable, an iterable, an item
Callable(fn) == [kind |-> "callable", fn |-> fn, xs |-> <<>>, x |-> 0]
Iterable(xs) == [kind |-> "iterable", fn |-> "", xs |-> xs, x |-> 0]
Item(x) == [kind |-> "item", fn |-> "", xs |-> <<>>, x |-> x]
\* an iterator object made over xs before choices is called: the heap cell
\* it lives in
Created(at, xs) == [kind |-> "iterator", fn |-> "", xs |-> xs, x |-> at]
\* Enumerator.choices(*iis)
Choices(iis) == [k |-> "choices", iis |-> iis]
\* Enumerator.__add__
Add(a, b) == [k |-> "add", a |-> a, b |-> b]
\* Enumerator.__mul__
Mul(a, b) == [k |-> "mul", a |-> a, b |-> b]
\* Enumerator.map
Map(f, a) == [k |-> "map", f |-> f, a |-> a]
\* Enumerator.that
That(p, a) == [k |-> "that", f |-> p, a |-> a]
\* Enumerator.lists
Lists(a) == [k |-> "lists", a |-> a]
\* Enumerator.concatmap; b is the enumerator the function f has captured
\* (empty when it has captured none)
ConcatMap(f, a) == [k |-> "concatmap", f |-> f, a |-> a, b |-> Raw(<<>>)]
\* Enumerator(lambda: (xs for xs in [[()]])), the product of no enumerators
Product0 == [k |-> "product0"]

RECURSIVE Sum(_, _)
\* Enumerator.sum: sum(enumerators, start=Enumerator.empty()), a left fold of +
Sum(start, es) == IF es = <<>> THEN start ELSE Sum(Add(start, Head(es)), Tail(es))

RECURSIVE Product(_)
\* Enumerator.product: a right fold of * onto the product of nothing
Product(es) ==
    IF es = <<>> THEN Product0 ELSE Map("flat", Mul(Head(es), Product(Tail(es))))

\* Enumerator.cons(ty, *etys), the etys being enumerators
Cons(ty, es) == Map(ty, Product(es))
\* Enumerator.sets
Sets(a) == Map("set", That("increasing", Lists(a)))
\* lambda e: e.sets().map(frozenset), registered for frozenset
FrozenSets(a) == Map("frozenset", Sets(a))
\* Enumerator.sets over frozensets: Enumerator[set[frozenset[T]]]
SetsOfFrozenSets(a) == Map("set", That("included", Lists(FrozenSets(a))))
\* the map of Enumerator.dicts: lambda vs: dict(zip(s, vs)), s captured
ZipMap(s, a) == [k |-> "zipmap", s |-> s, a |-> a]
\* Enumerator.dicts
Dicts(a, b) == [k |-> "concatmap", f |-> "dictsover", a |-> Sets(a), b |-> b]

\* ---------------------------------------- generators of tiers (iitertools.py)
\* (xs for xs in tiers)
SrcGen(tiers) == [k |-> "src", tiers |-> tiers, pos |-> 0]
\* itertools.chain(tiers, itertools.repeat([]))
EndlessGen(tiers) == [k |-> "chainrepeat", tiers |-> tiers, pos |-> 0]
\* ii.nest(xs)
NestGen(it) == [k |-> "nest", it |-> it, fin |-> FALSE]
\* ii.unit(x)
UnitGen(x) == [k |-> "unit", x |-> x, fin |-> FALSE]
\* ii.zippend(*iiterables): zip_longest keeps which iterables are still live
ZippendGen(gs) == [k |-> "zippend", gs |-> gs, live |-> [i \in 1..Len(gs) |-> TRUE]]
RECURSIVE Next(_)
\* a slip: the first tier of xss is read and dropped as the generator is made
PProductAhead(xss, yss, f) ==
    [k |-> "pproduct", xss |-> Next(xss).g, yss |-> yss, f |-> f,
     xss_ |-> <<>>, yss_ |-> <<>>, l |-> 0, fin |-> FALSE]
\* ii.pproduct(xss, yss, with_f), not started
PProductGen(xss, yss, f) ==
    [k |-> "pproduct", xss |-> xss, yss |-> yss, f |-> f,
     xss_ |-> <<>>, yss_ |-> <<>>, l |-> 0, fin |-> FALSE]
\* ii.mmap(f, xss)
MMapGen(f, xss) == [k |-> "mmap", f |-> f, xss |-> xss, fin |-> FALSE]
\* ii.ffilter(p, xss)
FFilterGen(p, xss) == [k |-> "ffilter", f |-> p, xss |-> xss, fin |-> FALSE]
\* ii.listss(mkTiers), not started; mk is the enumerator whose tiers is mkTiers
ListssGen(mk) == [k |-> "listss", mk |-> mk, pc |-> "start", inner |-> <<>>]

\* ii.cconcatmap(f, xss) = ii.cconcat(ii.mmap(f, xss)), not started: yss is
\* the list [] until the loop replaces it
CConcatGen(f, b, xss) ==
    [k |-> "cconcat", f |-> f, b |-> b, xss |-> xss, fin |-> FALSE,
     yss |-> SrcGen(<<>>), pc |-> "loop"]

\* the functions from values to enumerators handed to concatmap
FailsEnum(f, x) ==
    CASE f = "invsqs" -> IF x = 0 THEN "ZeroDivisionError" ELSE "none"
      [] f = "firsts" -> IF x = <<>> THEN "StopIteration" ELSE "none"
      [] OTHER -> "none"

ApplyEnum(f, b, x) ==
    CASE f = "twice" -> Raw(<< <<x>>, <<x>> >>)  \* lambda x: Enumerator(lambda: (xs for xs in [[x],[x]]))
         \* lambda s: Enumerator.product(*[other] * len(s)).map(lambda vs: dict(zip(s, vs)))
         \* invsqs(x): y = 12 // (x * x); return Enumerator(lambda: (xs for xs in [[y], [x]]))
         \* firsts(xs): y = next(iter(xs)); return Enumerator(lambda: (ys for ys in [[y]]))
      [] f = "invsqs" -> Raw(<< <<12 \div (x * x)>>, <<x>> >>)
      [] f = "firsts" -> Raw(<< <<x[1]>> >>)
         \* lambda x: Enumerator(lambda: (xs for xs in [[x]] * x))
      [] f = "ramp" -> Raw([i \in 1..(IF x > 0 THEN x ELSE 0) |-> <<x>>])
         \* lambda x: Enumerator(lambda: (xs for xs in [[], [x, x + 10]]))
      [] f = "gap" -> Raw(<< <<>>, <<x, x + 10>> >>)
         \* lambda x: Enumerator()
      [] f = "none" -> Empty
      [] f = "dictsover" -> ZipMap(SetIter(x), Product([i \in 1..Cardinality(x) |-> b]))

\* the iterator object of a heap cell
Ref(at) == [k |-> "ref", at |-> at]

\* tierify of Enumerator.choices
Tierify(obj) ==
    CASE obj.kind = "callable" -> NestGen(CallGen(obj.fn))
      [] obj.kind = "iterable" -> NestGen(ListIter(obj.xs))
      [] obj.kind = "iterator" -> NestGen(Ref(obj.x))     \* iter(obj) is obj
      [] obj.kind = "item" -> UnitGen(obj.x)

RECURSIVE Open(_)
\* e.tiers(): the generator objects are built, none is started
Open(e) ==
    CASE e.k = "raw" -> SrcGen(e.tiers)
      [] e.k = "endless" -> EndlessGen(e.tiers)
      [] e.k = "product0" -> SrcGen(<< << <<>> >> >>)
      [] e.k = "choices" -> ZippendGen([i \in 1..Len(e.iis) |-> Tierify(e.iis[i])])
      [] e.k = "add" -> ZippendGen(<<Open(e.a), Open(e.b)>>)
      [] e.k = "mul" -> PProductGen(Open(e.a), Open(e.b), "pair")
      [] e.k = "map" -> MMapGen(e.f, Open(e.a))
      [] e.k = "that" -> FFilterGen(e.f, Open(e.a))
      [] e.k = "lists" -> ListssGen(e.a)
      [] e.k = "concatmap" -> CConcatGen(e.f, e.b, Open(e.a))
      [] e.k = "zipmap" -> [k |-> "mmapzip", s |-> e.s, g |-> Open(e.a)]

\* a slip in the comprehension: for y in ys for x in xs
CrossXFastest(xs, ys, f) ==
    [n \in 1..(Len(xs) * Len(ys)) |->
        Apply2(f, xs[((n - 1) % Len(xs)) + 1], ys[((n - 1) \div Len(xs)) + 1])]

\* [with_f(x, y) for x in xs for y in ys]
Cross(xs, ys, f) ==
    [n \in 1..(Len(xs) * Len(ys)) |->
        Apply2(f, xs[((n - 1) \div Len(ys)) + 1], ys[((n - 1) % Len(ys)) + 1])]

RECURSIVE Diagonal(_, _, _, _, _)
\* for i in range(from, l): zs += cross(xss_[i], yss_[l - i - 1])
Diagonal(xss_, yss_, l, i, f) ==
    IF i >= l THEN <<>>
    ELSE Cross(xss_[i + 1], yss_[l - i], f) \o Diagonal(xss_, yss_, l, i + 1, f)

RECURSIVE ZipShortest(_, _, _, _)
\* a slip: zip in place of zip_longest, the round ends with the first
\* iterable that ends
ZipShortest(gs, live, i, acc) ==
    IF i > Len(gs) THEN [stop |-> FALSE, gs |-> gs, live |-> live, acc |-> acc, err |-> "none"]
    ELSE LET r == Next(gs[i])
             gs2 == [gs EXCEPT ![i] = r.g]
         IN  IF ~r.stop THEN ZipShortest(gs2, live, i + 1, acc \o r.val)
             ELSE [stop |-> TRUE, gs |-> gs2,
                   live |-> [j \in 1..Len(gs) |-> FALSE], acc |-> <<>>, err |-> r.err]

RECURSIVE ZipLongest(_, _, _, _)
\* one round of zip_longest(*gs, fillvalue=[]) chained into one list, from
\* the i-th iterable on; an exhausted iterable is never asked again, and an
\* error raised by an iterable ends the round
ZipLongest(gs, live, i, acc) ==
    IF i > Len(gs) THEN [stop |-> FALSE, gs |-> gs, live |-> live, acc |-> acc, err |-> "none"]
    ELSE IF ~live[i] THEN ZipLongest(gs, live, i + 1, acc)
    ELSE LET r == Next(gs[i])
             gs2 == [gs EXCEPT ![i] = r.g]
             live2 == [live EXCEPT ![i] = FALSE]
         IN  IF r.err # "none"
             THEN [stop |-> TRUE, gs |-> gs2, live |-> live2, acc |-> <<>>, err |-> r.err]
             ELSE IF ~r.stop THEN ZipLongest(gs2, live, i + 1, acc \o r.val)
             ELSE IF \A j \in 1..Len(gs) : ~live2[j]
                  THEN [stop |-> TRUE, gs |-> gs2, live |-> live2, acc |-> <<>>, err |-> "none"]
                  ELSE ZipLongest(gs2, live2, i + 1, acc)

\* an error raised in the body of a generator function as the caller of
\* next() gets it: a StopIteration leaves a generator as a RuntimeError
Escaping(err) == IF err = "StopIteration" THEN "RuntimeError" ELSE err

\* a slip: mmap catches what f raises and leaves the value out
MapKept(f, xs, g) ==
    Yielded(MapList(f, SelectSeq(xs, LAMBDA x : Fails1(f, x) = "none")), g)

\* yield [f(x) for x in xs]: the list, or the error f raises, which ends the
\* generator
MapYield(f, xs, g) ==
    IF FirstFailure(f, xs) # "none"
    THEN Threw(Escaping(FirstFailure(f, xs)), [g EXCEPT !.fin = TRUE])
    ELSE Yielded(MapList(f, xs), g)

\* yield [x for x in xs if p(x)]
FilterYield(p, xs, g) ==
    IF FirstFailure(p, xs) # "none"
    THEN Threw(Escaping(FirstFailure(p, xs)), [g EXCEPT !.fin = TRUE])
    ELSE Yielded(FilterList(p, xs), g)

\* next(g) of a generator of tiers
Next(g) ==
    CASE g.k = "src" ->
           IF g.pos < Len(g.tiers)
           THEN Yielded(g.tiers[g.pos + 1], [g EXCEPT !.pos = g.pos + 1])
           ELSE Stopped(g)
      [] g.k = "chainrepeat" ->
           IF g.pos < Len(g.tiers)
           THEN Yielded(g.tiers[g.pos + 1], [g EXCEPT !.pos = g.pos + 1])
           ELSE Yielded(<<>>, g)
      [] g.k = "nest" ->
           IF g.fin THEN Stopped(g)
           ELSE LET r == VNext(g.it) IN
                IF r.stop THEN Stopped([g EXCEPT !.it = r.g, !.fin = TRUE])
                ELSE Yielded(<<r.val>>, [g EXCEPT !.it = r.g])
      [] g.k = "unit" ->
           IF g.fin THEN Stopped(g)
           ELSE Yielded(<<g.x>>, [g EXCEPT !.fin = TRUE])
      [] g.k = "zippend" ->
           IF \A j \in 1..Len(g.gs) : ~g.live[j] THEN Stopped(g)
           ELSE LET r == ZipLongest(g.gs, g.live, 1, <<>>)
                    g2 == [g EXCEPT !.gs = r.gs, !.live = r.live]
                IN  IF r.err # "none" THEN Threw(r.err, g2)
                    ELSE IF r.stop THEN Stopped(g2) ELSE Yielded(r.acc, g2)
      [] g.k = "pproduct" ->
           IF g.fin THEN Stopped(g)
           ELSE LET rx == Next(g.xss)       \* next(xss, [])
                    ry == Next(g.yss)       \* next(yss, [])
                    xs_ == Append(g.xss_, rx.val)
                    ys_ == Append(g.yss_, ry.val)
                    l == g.l + 1
                    zs == Diagonal(xs_, ys_, l, 0, g.f)
                    g2 == [g EXCEPT !.xss = rx.g, !.yss = ry.g,
                                    !.xss_ = xs_, !.yss_ = ys_, !.l = l]
                IN  IF rx.err # "none" THEN Threw(rx.err, [g EXCEPT !.xss = rx.g, !.fin = TRUE])
                    ELSE IF ry.err # "none" THEN Threw(ry.err, [g2 EXCEPT !.fin = TRUE])
                    ELSE IF zs = <<>> THEN Stopped([g2 EXCEPT !.fin = TRUE])
                    ELSE Yielded(zs, g2)
      [] g.k = "mmap" ->
           IF g.fin THEN Stopped(g)
           ELSE LET r == Next(g.xss) IN
                IF r.err # "none" THEN Threw(r.err, [g EXCEPT !.xss = r.g, !.fin = TRUE])
                ELSE IF r.stop THEN Stopped([g EXCEPT !.xss = r.g, !.fin = TRUE])
                ELSE MapYield(g.f, r.val, [g EXCEPT !.xss = r.g])
      [] g.k = "ffilter" ->
           IF g.fin THEN Stopped(g)
           ELSE LET r == Next(g.xss) IN
                IF r.err # "none" THEN Threw(r.err, [g EXCEPT !.xss = r.g, !.fin = TRUE])
                ELSE IF r.stop THEN Stopped([g EXCEPT !.xss = r.g, !.fin = TRUE])
                ELSE FilterYield(g.f, r.val, [g EXCEPT !.xss = r.g])
      [] g.k = "listss" ->
          (CASE g.pc = "start" -> Yielded(<< <<>> >>, [g EXCEPT !.pc = "first"])
             [] g.pc = "first" ->
                  Next([g EXCEPT !.pc = "rest",
                                 !.inner = <<PProductGen(Open(g.mk), ListssGen(g.mk), "cons")>>])
             [] g.pc = "rest" ->
                  LET r == Next(g.inner[1]) IN
                  IF r.err # "none" THEN Threw(r.err, [g EXCEPT !.inner = <<r.g>>, !.pc = "done"])
                  ELSE IF r.stop THEN Stopped([g EXCEPT !.inner = <<r.g>>, !.pc = "done"])
                  ELSE Yielded(r.val, [g EXCEPT !.inner = <<r.g>>])
             [] g.pc = "done" -> Stopped(g))
      [] g.k = "mmapzip" ->
          LET r == Next(g.g) IN
          IF r.err # "none" THEN Threw(r.err, [g EXCEPT !.g = r.g])
          ELSE IF r.stop THEN Stopped([g EXCEPT !.g = r.g])
          ELSE Yielded([i \in 1..Len(r.val) |-> DictZip(g.s, r.val[i])], [g EXCEPT !.g = r.g])
      [] g.k = "cconcat" ->
          (CASE g.pc = "loop" ->
                  \* for xss in xsss: the next tier of mmap(f, xss), its
                  \* generators zippended into one
                  LET r == IF g.fin THEN Stopped(g.xss) ELSE Next(g.xss)
                      bad == {i \in 1..Len(r.val) : FailsEnum(g.f, r.val[i]) # "none"}
                      first == CHOOSE i \in bad : \A j \in bad : i <= j
                  IN
                  IF r.err # "none" THEN Threw(r.err, [g EXCEPT !.xss = r.g, !.pc = "done"])
                  ELSE IF r.stop
                  THEN Next([g EXCEPT !.xss = r.g, !.fin = TRUE, !.pc = "rest"])
                  ELSE IF bad # {}
                  THEN Threw(Escaping(FailsEnum(g.f, r.val[first])),
                             [g EXCEPT !.xss = r.g, !.pc = "done"])
                  ELSE LET subs == [i \in 1..Len(r.val) |-> Open(ApplyEnum(g.f, g.b, r.val[i]))]
                           yss == ZippendGen(<<g.yss, ZippendGen(subs)>>)
                           ry == Next(yss)      \* next(yss, [])
                       IN  IF ry.err # "none" THEN Threw(ry.err, [g EXCEPT !.xss = r.g, !.pc = "done"])
                           ELSE Yielded(ry.val, [g EXCEPT !.xss = r.g, !.yss = ry.g])
             [] g.pc = "rest" ->
                  \* yield from yss
                  LET ry == Next(g.yss) IN
                  IF ry.err # "none" THEN Threw(ry.err, [g EXCEPT !.yss = ry.g, !.pc = "done"])
                  ELSE IF ry.stop THEN Stopped([g EXCEPT !.yss = ry.g, !.pc = "done"])
                  ELSE Yielded(ry.val, [g EXCEPT !.yss = ry.g])
             [] g.pc = "done" -> Stopped(g))

RECURSIVE TakeFrom(_, _)
\* list(itertools.islice(g, n)): the first n tiers a generator yields, those
\* before its error if it raises one
TakeFrom(g, n) ==
    IF n = 0 THEN <<>>
    ELSE LET r == Next(g) IN
         IF r.stop THEN <<>> ELSE <<r.val>> \o TakeFrom(r.g, n - 1)

\* list(itertools.islice(e.tiers(), n))
Take(e, n) == TakeFrom(Open(e), n)

\* the outcome of iterating an enumerator up to n values: the values got and
\* the error that ended it, if one did
Iterated(vals, err) == [vals |-> vals, err |-> err]

RECURSIVE FlatFrom(_, _, _)
\* itertools.islice(flatten(g), n), run to its end, with acc got so far
FlatFrom(g, acc, n) ==
    IF Len(acc) >= n THEN Iterated(SubSeq(acc, 1, n), "none")
    ELSE LET r == Next(g) IN
         IF r.err # "none" THEN Iterated(acc, r.err)
         ELSE IF r.stop THEN Iterated(acc, "none")
         ELSE FlatFrom(r.g, acc \o r.val, n)

\* list(itertools.islice(e, n)), or the error it ends with
FlatTake(e, n) == FlatFrom(Open(e), <<>>, n)

\* -------------------------------------------------------------- the state
VARIABLES
    enum,      \* the Enumerator the consumers iterate
    users,     \* the consumers of enum
    heap,      \* the generator objects the calls of enum.tiers() have made
    gen,       \* per consumer: 0 or the place in heap of its generator
    seen,      \* per consumer: the tiers next() has returned to it
    ended,     \* per consumer: next() has raised StopIteration
    raised,    \* per consumer: the error next() has raised, or "none"
    enumerators,  \* Enumerator._enumerators, the registry
    last,      \* per type: the object of the latest register call for it, if any
    found,     \* the latest Enumerator[c]: c, its outcome, the registry before it
    toggled,   \* the latest of default, only_positives, only_non_negatives called
    checked,   \* the latest call of check: its arguments and what it did
    shown,     \* _repr_len, _str_len and the latest call of repr or str
    imported,  \* whether the module has been loaded, and the error that ended it
    frame      \* the latest call of gen.fusc: its argument, its locals, what it returned

streamVars == <<enum, users, heap, gen, seen, ended, raised>>
registryVars == <<enumerators, last, found, toggled>>
driverVars == <<checked, shown, imported, frame>>
vars == <<streamVars, registryVars, driverVars>>

Consumers == {1, 2}

\* ------------------------------------------------- the enumerators tried
\* Enumerator[int], Enumerator[float] and Enumerator[bool] as registered at
\* start-up
Ints == Choices(<<Callable("ints")>>)
Floats == Choices(<<Callable("floats")>>)
Bools == Choices(<<Item(PyFalse), Item(PyTrue)>>)

\* how many values each tier of a raw input stream holds
Shapes == UNION {[1..n -> 0..MaxWidth] : n \in 0..MaxTiers}

\* the raw stream of a shape: tier i holds the first shape[i] values of row i
\* of base, base + step, base + 2 * step, ... so that no value is in two tiers
RawTiers(shape, base, step) ==
    [i \in 1..Len(shape) |->
        [j \in 1..shape[i] |-> base + step * ((i - 1) * MaxWidth + (j - 1))]]

RawStreams(base, step) == {Raw(RawTiers(sh, base, step)) : sh \in Shapes}

ProductRecipes ==
    {Mul(a, b) : a \in RawStreams(0, 1), b \in RawStreams(10, 10)}
    \cup {Mul(Ints, Bools), Mul(Bools, Ints), Mul(Ints, Ints),
          Mul(That("even", Ints), Bools), Mul(Bools, That("positive", Ints))}

\* ------------------------------------------------------------ the registry
\* the types: the keys of the registry and the scalar descriptors
TypeIds == {"int", "float", "bool", "list", "tuple", "type"}

\* a function object, such as Enumerator.lists, where an Enumerator may stand
Function(f) == [k |-> "function", f |-> f]

IsEnumerator(o) == o.k # "function"

\* the registrations made when the module is loaded
Registered ==
    [t \in {"int", "float", "bool", "list", "tuple"} |->
        CASE t = "int" -> Ints                        \* Enumerator.choices(gen.ints)
          [] t = "float" -> Floats                    \* Enumerator.choices(gen.floats)
          [] t = "bool" -> Bools                      \* Enumerator.choices(False, True)
          [] t = "list" -> Function("lists")          \* Enumerator.lists
          [] t = "tuple" -> Function("product")]      \* Enumerator.product

\* the descriptors: a class c, a types.GenericAlias origin[args] and a union
Scalar(t) == [tag |-> "scalar", id |-> t, args |-> <<>>]
Generic(t, args) == [tag |-> "generic", id |-> t, args |-> args]
Union(args) == [tag |-> "union", id |-> "", args |-> args]

\* what a call does: it returns an object or raises an error
NoError == "none"
KeyError == "KeyError"
CouldNotFind == "TypeError: could not find Enumerator for"
NotCallable == "TypeError: object is not callable"
WrongArity == "TypeError: takes 1 positional argument"
Returned(o) == [err |-> NoError, val |-> <<o>>]
Raised(err) == [err |-> err, val |-> <<>>]

\* a slip: a missing key gives the empty enumerator, as with dict.get
LookupOrEmpty(reg, t) == IF t \in DOMAIN reg THEN Returned(reg[t]) ELSE Returned(Empty)

\* cls._enumerators[t]
Lookup(reg, t) == IF t \in DOMAIN reg THEN Returned(reg[t]) ELSE Raised(KeyError)

\* a slip: the arguments reach the builder in the opposite order
CallReversed(o, enums) ==
    LET rev == [i \in 1..Len(enums) |-> enums[Len(enums) + 1 - i]] IN
    CASE ~IsEnumerator(o) /\ o.f = "lists" ->
            IF Len(enums) = 1 THEN Returned(Lists(enums[1])) ELSE Raised(WrongArity)
      [] ~IsEnumerator(o) /\ o.f = "product" -> Returned(Product(rev))
      [] OTHER -> Raised(NotCallable)

\* cls._enumerators[origin](*enums): the call of a registered object
Call(o, enums) ==
    CASE ~IsEnumerator(o) /\ o.f = "lists" ->
            \* Enumerator.lists(self)
            IF Len(enums) = 1 THEN Returned(Lists(enums[1])) ELSE Raised(WrongArity)
      [] ~IsEnumerator(o) /\ o.f = "product" -> Returned(Product(enums))
      [] OTHER -> Raised(NotCallable)

\* the places of the failed ones among some outcomes
Failed(rs) == {i \in 1..Len(rs) : rs[i].err # NoError}

RECURSIVE Find(_, _)
\* Enumerator.find, which Enumerator[c] calls
Find(reg, c) ==
    \* enums = [Enumerator[a] for a in args]: the first failure ends it, and
    \* being a TypeError it passes the except clause
    LET rs == [i \in 1..Len(c.args) |-> Find(reg, c.args[i])]
        enums == [i \in 1..Len(c.args) |-> rs[i].val[1]]
        first == CHOOSE i \in Failed(rs) : \A j \in Failed(rs) : i <= j
        l == Lookup(reg, c.id)
    IN  CASE c.tag = "generic" ->
                IF Failed(rs) # {} THEN rs[first]
                ELSE IF l.err = KeyError THEN Raised(CouldNotFind)
                ELSE Call(l.val[1], enums)
          [] c.tag = "union" ->
                IF Failed(rs) # {} THEN rs[first]
                ELSE Returned(Sum(Empty, enums))
          [] OTHER ->
                IF l.err = KeyError THEN Raised(CouldNotFind) ELSE l

\* a slip: an entry once made is kept, as with dict.setdefault
RegisterFirstWins(reg, t, o) ==
    [u \in DOMAIN reg \cup {t} |-> IF u \in DOMAIN reg THEN reg[u] ELSE o]

\* cls._enumerators[c] = enumerator
RegisterIn(reg, t, o) ==
    [u \in DOMAIN reg \cup {t} |-> IF u = t THEN o ELSE reg[u]]

\* the statements that register the default enumerators: the type, the
\* object, or the error evaluating the statement raises; gen has no strss
Statement(t, o) == [t |-> t, o |-> <<o>>, err |-> "none"]
Raising(t, err) == [t |-> t, o |-> <<>>, err |-> err]
Startup ==
    << Statement("int", Ints),                    \* Enumerator.choices(gen.ints)
       Statement("float", Floats),                \* Enumerator.choices(gen.floats)
       Statement("bool", Bools),                  \* Enumerator.choices(False, True)
       Statement("list", Function("lists")),      \* Enumerator.lists
       Statement("tuple", Function("product")),   \* Enumerator.product
       Raising("str", "AttributeError"),          \* Enumerator(gen.strss)
       Statement("set", Function("sets")),        \* Enumerator.sets
       Statement("dict", Function("dicts")) >>    \* Enumerator.dicts

RECURSIVE LoadFrom(_, _)
\* the statements run in order onto the registry reg, up to the first that
\* raises: the registry then, and the error
LoadFrom(lines, reg) ==
    IF lines = <<>> THEN [reg |-> reg, err |-> "none"]
    ELSE IF Head(lines).err # "none" THEN [reg |-> reg, err |-> Head(lines).err]
    ELSE LoadFrom(Tail(lines), RegisterIn(reg, Head(lines).t, Head(lines).o[1]))

\* _enumerators: dict = {}
NoEntries == [t \in {} |-> Empty]

\* the module loaded
Loaded == LoadFrom(Startup, NoEntries)

\* the module not loaded yet, and loaded with the error err
NotImported == [done |-> FALSE, err |-> "none"]
Imported(err) == [done |-> TRUE, err |-> err]

\* nothing looked up yet
NotFound == [c |-> Scalar(""), err |-> NoError, val |-> <<>>, reg |-> Registered]

\* ------------------------------------------------------------------ check
\* what a property does on its arguments: it returns a true or a false
\* value, or raises PreconditionUnmatched ("skip") or some other error
PropResult(p, args) ==
    CASE p = "double_ge" ->              \* lambda x: x + x >= x
            IF args[1] + args[1] >= args[1] THEN "true" ELSE "false"
      [] p = "square_ge" ->              \* lambda x: x * x >= x
            IF args[1] * args[1] >= args[1] THEN "true" ELSE "false"
      [] p = "commute" ->                \* lambda x, y: x + y == y + x
            IF args[1] + args[2] = args[2] + args[1] THEN "true" ELSE "false"
      [] p = "increase" ->               \* lambda x, y: x + y > x
            IF args[1] + args[2] > args[1] THEN "true" ELSE "false"
      [] p = "nonzero_above" ->          \* precondition(x != 0); return x > -2
            IF args[1] = 0 THEN "skip" ELSE IF args[1] > -2 THEN "true" ELSE "false"
      [] p = "positive_small" ->         \* precondition(x > 0); return x < 100
            IF args[1] <= 0 THEN "skip" ELSE IF args[1] < 100 THEN "true" ELSE "false"
      [] p = "never" ->                  \* precondition(False)
            "skip"
      [] p = "inverse" ->                \* lambda x: 12 // (x * x) >= 0
            IF args[1] = 0 THEN "ZeroDivisionError" ELSE "true"
      [] p = "truth" ->                  \* lambda b: b
            IF args[1] = PyTrue THEN "true" ELSE "false"
      [] p = "always" ->                 \* lambda x: True
            "true"
      [] p = "nothing" ->                \* lambda x: False
            "false"

\* what a call of check has done: what it returned ("True", "False") or that
\* it raised err; what it printed (report: "ok", "failed", "exception" or
\* "none") with the number of tests and the arguments in it; and the
\* arguments the property was evaluated on
CheckDone(ret, err, report, tests, exhausted, args, evaluated) ==
    [ret |-> ret, err |-> err, report |-> report, tests |-> tests,
     exhausted |-> exhausted, args |-> args, evaluated |-> evaluated]

\* the end of check, after the loop: i is the index of the last iteration,
\* unbound when there was none
CheckEnd(iterations, max_tests, verbose, evaluated) ==
    IF ~verbose THEN CheckDone("True", "none", "none", 0, FALSE, <<>>, evaluated)
    ELSE IF iterations = 0
    THEN CheckDone("raised", "UnboundLocalError", "none", 0, FALSE, <<>>, evaluated)
    ELSE CheckDone("True", "none", "ok", iterations, iterations < max_tests, <<>>, evaluated)

RECURSIVE CheckLoop(_, _, _, _, _, _, _, _)
\* for i, args in enumerate(itertools.islice(Enumerator.product(*es), max_tests)):
\* g is the generator of tiers that flatten reads and buf the rest of its
\* tier, i the number of iterations made
CheckLoop(p, max_tests, verbose, silent, g, buf, i, evaluated) ==
    IF i >= max_tests THEN CheckEnd(i, max_tests, verbose, evaluated)
    ELSE IF buf = <<>>
    THEN LET r == Next(g) IN
         IF r.err # "none" THEN CheckDone("raised", r.err, "none", 0, FALSE, <<>>, evaluated)
         ELSE IF r.stop THEN CheckEnd(i, max_tests, verbose, evaluated)
         ELSE CheckLoop(p, max_tests, verbose, silent, r.g, r.val, i, evaluated)
    ELSE LET args == Head(buf)
             res == PropResult(p, args)
             ev == Append(evaluated, args)
         IN  CASE res = "true" ->
                    CheckLoop(p, max_tests, verbose, silent, g, Tail(buf), i + 1, ev)
               [] res = "skip" ->          \* except PreconditionUnmatched: continue
                    CheckLoop(p, max_tests, verbose, silent, g, Tail(buf), i + 1, ev)
               [] res = "false" ->
                    IF silent THEN CheckDone("False", "none", "none", 0, FALSE, <<>>, ev)
                    ELSE CheckDone("False", "none", "failed", i + 1, FALSE, args, ev)
               [] OTHER ->                 \* except BaseException
                    IF silent THEN CheckDone("False", "none", "none", 0, FALSE, <<>>, ev)
                    ELSE CheckDone("False", "none", "exception", i + 1, FALSE, args, ev)

\* check(prop, max_tests, verbose, silent, types) with the registry reg
CheckIn(reg, p, types, max_tests, verbose, silent) ==
    LET rs == [i \in 1..Len(types) |-> Find(reg, types[i])]    \* es = [Enumerator[t] for t in types]
        first == CHOOSE i \in Failed(rs) : \A j \in Failed(rs) : i <= j
        es == [i \in 1..Len(types) |-> rs[i].val[1]]
    IN  IF Failed(rs) # {}
        THEN CheckDone("raised", rs[first].err, "none", 0, FALSE, <<>>, <<>>)
        ELSE CheckLoop(p, max_tests, verbose /\ ~silent, silent,
                       Open(Product(es)), <<>>, 0, <<>>)

\* holds(prop, max_tests, types): check(prop, max_tests=max_tests, silent=True, types=types)
HoldsIn(reg, p, types, max_tests) == CheckIn(reg, p, types, max_tests, TRUE, TRUE)

\* no call of check yet
NotChecked ==
    [call |-> "none", p |-> "", types |-> <<>>, max_tests |-> 0, verbose |-> FALSE,
     silent |-> FALSE, reg |-> Registered]
    @@ CheckDone("none", "none", "none", 0, FALSE, <<>>, <<>>)

\* ------------------------------------------------------------ repr, str
\* the text of a rendering: the items between the brackets and whether
\* "..." comes after them
Text(items, ellipsis) == [items |-> items, ellipsis |-> ellipsis]

\* xs = [repr(x) for x in ...]; if len(xs) > l: xs[l] = "..."
Ellipsized(xs, l) ==
    IF Len(xs) > l THEN Text(SubSeq(xs, 1, l), TRUE) ELSE Text(xs, FALSE)

\* _repr_len and _str_len as the class starts with them
DefaultLength == 6

\* no call of repr or str yet
NotShown ==
    [repr_len |-> DefaultLength, str_len |-> DefaultLength, op |-> "none", l |-> 0,
     g |-> SrcGen(<<>>), got |-> <<>>, odd |-> FALSE, done |-> FALSE, err |-> "none",
     text |-> Text(<<>>, FALSE)]

\* ------------------------------------------------------------ the actions
Fresh ==
    /\ heap = <<>>
    /\ gen = [c \in Consumers |-> 0]
    /\ seen = [c \in Consumers |-> <<>>]
    /\ ended = [c \in Consumers |-> FALSE]
    /\ raised = [c \in Consumers |-> "none"]
    /\ enumerators = Registered
    /\ last = [t \in TypeIds |-> <<>>]
    /\ found = NotFound
    /\ toggled = "none"
    /\ checked = NotChecked
    /\ shown = NotShown
    /\ imported = Imported(Loaded.err)
    /\ frame = NoFrame

\* a slip: tiers holds one generator object rather than a function making
\* them, and every call hands out that object
TiersCallShared(h, e) ==
    IF h = <<>> THEN [heap |-> <<Open(e)>>, ref |-> 1] ELSE [heap |-> h, ref |-> 1]

\* e.tiers(): the lambda runs and makes new generator objects
TiersCall(h, e) == [heap |-> Append(h, Open(e)), ref |-> Len(h) + 1]

\* a consumer calls enum.tiers()
OpenTiers(c) ==
    /\ c \in users
    /\ gen[c] = 0
    /\ LET t == TiersCall(heap, enum) IN
         /\ heap' = t.heap
         /\ gen' = [gen EXCEPT ![c] = t.ref]
    /\ UNCHANGED <<enum, users, seen, ended, raised, registryVars, driverVars>>

\* a consumer calls next() on its generator, having seen less than n tiers
PullWithin(c, n) ==
    /\ c \in users
    /\ gen[c] # 0
    /\ ~ended[c]
    /\ raised[c] = "none"
    /\ Len(seen[c]) < n
    /\ LET r == Next(heap[gen[c]]) IN
         /\ heap' = [heap EXCEPT ![gen[c]] = r.g]
         /\ seen' = [seen EXCEPT ![c] = IF r.stop THEN @ ELSE Append(@, r.val)]
         /\ ended' = [ended EXCEPT ![c] = r.stop /\ r.err = "none"]
         /\ raised' = [raised EXCEPT ![c] = r.err]
    /\ UNCHANGED <<enum, users, gen, registryVars, driverVars>>

\* a consumer calls next() on its generator
PullTier(c) == PullWithin(c, MaxPull)

NextStep ==
    \/ \E c \in Consumers : OpenTiers(c)
    \/ \E c \in Consumers : PullTier(c)

InitProduct ==
    /\ enum \in ProductRecipes
    /\ users = {1}
    /\ Fresh

SpecProduct == InitProduct /\ [][NextStep]_vars

\* how many tiers an enumerator has, counted up to n
NumTiers(e, n) == Len(Take(e, n))

\* tier i (from 0) of an enumerator, empty when the enumerator has ended
TierAt(e, i) ==
    LET ts == Take(e, i + 1) IN IF Len(ts) > i THEN ts[i + 1] ELSE <<>>

\* C1: every pair (a, b) with a in tier i of S1 and b in tier j of S2 is in
\* tier i + j of S1 * S2, also when S1 or S2 has empty tiers before non-empty
\* ones: the tier is not missing when the product ends, and holds the pair
C1_ProductFairComplete ==
    \A c \in users :
        enum.k = "mul" =>
            \A i, j \in 0..(MaxPull - 1) :
                \A a \in Range(TierAt(enum.a, i)), b \in Range(TierAt(enum.b, j)) :
                    /\ ended[c] => Len(seen[c]) > i + j
                    /\ Len(seen[c]) > i + j => <<a, b>> \in Range(seen[c][i + j + 1])

RECURSIVE PairsOf(_, _)
\* the cross product of two tiers as the claims state it: the pairs of the
\* first value of xs with every value of ys, then those of the second, ...
PairsOf(xs, ys) ==
    IF xs = <<>> THEN <<>>
    ELSE [j \in 1..Len(ys) |-> <<Head(xs), ys[j]>>] \o PairsOf(Tail(xs), ys)

\* the tier k the claims give the product of a and b: for i = 0..k in
\* increasing i, the cross product of tier i of a with tier k - i of b
DiagonalTier(a, b, k) ==
    Concat([i \in 1..(k + 1) |-> PairsOf(TierAt(a, i - 1), TierAt(b, k - (i - 1)))])

ExampleProduct == Mul(Raw(<< <<0, 1>> >>), Raw(<< <<10, 20>> >>))
ExamplePairs == << <<0, 10>>, <<0, 20>>, <<1, 10>>, <<1, 20>> >>

\* C2: every tier k the binary product emits is the concatenation, for
\* i = 0..k in increasing i, of the cross product of S1's tier i with S2's
\* tier k - i, S1's value varying slowest; the product of the single tiers
\* [0,1] and [10,20] is the one tier [(0,10),(0,20),(1,10),(1,20)] and ends
C2_ProductTierIsDiagonal ==
    \A c \in users :
        enum.k = "mul" =>
            /\ \A k \in 0..(Len(seen[c]) - 1) :
                   seen[c][k + 1] = DiagonalTier(enum.a, enum.b, k)
            /\ enum = ExampleProduct =>
                   /\ Len(seen[c]) <= 1
                   /\ ended[c] => Flatten(seen[c]) = ExamplePairs

\* the example product has been iterated to its end
C2_Witness ==
    /\ enum = ExampleProduct
    /\ ended[1]
    /\ seen[1] = <<ExamplePairs>>

\* ------------------------------------------------------------------ lists
ListRecipes ==
    {Lists(t) : t \in RawStreams(0, 1)}
    \cup {Lists(Ints), Lists(Bools), Lists(That("even", Ints)),
          Lists(That("positive", Ints)), Lists(Map("double", Ints)),
          Lists(Lists(Bools)), Lists(Lists(Ints)), Lists(Mul(Bools, Ints))}

InitLists ==
    /\ enum \in ListRecipes
    /\ users = {1}
    /\ Fresh

SpecLists == InitLists /\ [][NextStep]_vars

RECURSIVE ListsTierSet(_, _)
\* the sequences the claims put in tier k of lists(t): the empty one in tier
\* 0, and [x] + xs for x in tier i of t and xs in tier k - 1 - i of lists(t)
ListsTierSet(t, k) ==
    IF k = 0 THEN {<<>>}
    ELSE UNION {{<<x>> \o xs : x \in Range(TierAt(t, i)), xs \in ListsTierSet(t, k - 1 - i)} :
                   i \in 0..(k - 1)}

\* C3: tier 0 of lists(T) is [[]] and tier k >= 1 holds exactly the
\* sequences [x] + xs with x in tier i of T and xs in tier k - 1 - i of
\* lists(T), each once, none omitted: a tier lists(T) never yields is empty
C3_ListsTiersExact ==
    \A c \in users :
        enum.k = "lists" =>
            \A k \in 0..(MaxPull - 1) :
                LET expected == ListsTierSet(enum.a, k) IN
                /\ Len(seen[c]) > k =>
                       /\ Range(seen[c][k + 1]) = expected
                       /\ Len(seen[c][k + 1]) = Cardinality(expected)
                /\ (ended[c] /\ Len(seen[c]) <= k) => expected = {}

\* the first n values of a flattened stream
FirstValues(xss, n) == SubSeq(Flatten(xss), 1, n)

\* C4: the first six lists over the single tier [0,1] (or [False,True]) are
\* [], [0], [1], [0,0], [1,0], [0,1] and the first six lists of integers are
\* [], [0], [0,0], [1], [0,0,0], [1,0]
C4_ListsOrderOfTests ==
    \A c \in users :
        Len(Flatten(seen[c])) >= 6 =>
            /\ enum = Lists(Raw(<< <<0, 1>> >>)) =>
                   FirstValues(seen[c], 6) =
                       << <<>>, <<0>>, <<1>>, <<0, 0>>, <<1, 0>>, <<0, 1>> >>
            /\ enum = Lists(Bools) =>
                   FirstValues(seen[c], 6) =
                       << <<>>, <<PyFalse>>, <<PyTrue>>, <<PyFalse, PyFalse>>,
                          <<PyTrue, PyFalse>>, <<PyFalse, PyTrue>> >>
            /\ enum = Lists(Ints) =>
                   FirstValues(seen[c], 6) =
                       << <<>>, <<0>>, <<0, 0>>, <<1>>, <<0, 0, 0>>, <<1, 0>> >>

\* -------------------------------------------------------------------- sums
SumOperands == {Ints, Bools, Empty, That("even", Ints)}
MaxSummands == 3
SumArgs == UNION {[1..n -> SumOperands] : n \in 0..MaxSummands}

SumRecipes ==
    {Add(a, b) : a \in RawStreams(0, 1), b \in RawStreams(10, 10)}
    \cup {Sum(Empty, es) : es \in SumArgs}

InitSum ==
    /\ enum \in SumRecipes
    /\ users = {1}
    /\ Fresh

SpecSum == InitSum /\ [][NextStep]_vars


Max(S) == CHOOSE x \in S : \A y \in S : y <= x

\* what the claims say of a consumer of the sum of the enumerators es
SumOf(c, es) ==
    LET longest == Max({0} \cup {NumTiers(es[i], MaxPull + 1) : i \in 1..Len(es)}) IN
    /\ \A k \in 0..(Len(seen[c]) - 1) :
           seen[c][k + 1] = Concat([i \in 1..Len(es) |-> TierAt(es[i], k)])
    /\ Len(seen[c]) <= longest
    /\ ended[c] => Len(seen[c]) = longest

\* how often v is among the values xs
Occurrences(v, xs) == Cardinality({i \in 1..Len(xs) : xs[i] = v})

\* every value of e is once among the values xs, in e's order
KeepsOnce(e, xs) ==
    LET own == Flatten(Take(e, MaxPull + 1)) IN
    /\ \A i \in 1..Len(own) : Occurrences(own[i], xs) = 1
    /\ SelectSeq(xs, LAMBDA v : v \in Range(own)) = own

ExampleSumLeft == Raw(RawTiers(<<1, 1>>, 0, 1))
ExampleSumRight == Raw(RawTiers(<<2>>, 10, 10))

\* C5: tier i of a sum is the concatenation, in argument order, of tier i
\* of each input, an ended input contributing nothing; the sum has as many
\* tiers as its longest input; [[a],[b]] + [[c,d]] is [[a,c,d],[b]]; inputs
\* with disjoint values each keep their values, once and in order
C5_SumTiersConcatenate ==
    \A c \in users :
        /\ \A es \in SumArgs : enum = Sum(Empty, es) => SumOf(c, es)
        /\ (enum.k = "add" /\ enum.a.k = "raw") =>
               /\ SumOf(c, <<enum.a, enum.b>>)
               /\ ended[c] =>
                      /\ KeepsOnce(enum.a, Flatten(seen[c]))
                      /\ KeepsOnce(enum.b, Flatten(seen[c]))
        /\ (enum = Add(ExampleSumLeft, ExampleSumRight) /\ ended[c]) =>
               seen[c] = << <<ExampleSumLeft.tiers[1][1]>> \o ExampleSumRight.tiers[1],
                            ExampleSumLeft.tiers[2] >>

\* the sum of [[a],[b]] and [[c,d]] has been iterated to its end
C5_Witness ==
    /\ enum = Add(ExampleSumLeft, ExampleSumRight)
    /\ ended[1]
    /\ Len(seen[1]) = 2
    /\ Len(seen[1][1]) = 3

\* ------------------------------------------------- two consumers of one
\* enumerators of the registry and enumerators the combinators build
SharedRecipes ==
    {Ints, Bools, Add(Ints, Bools), Mul(Ints, Bools), Mul(Bools, Bools),
     Map("double", Ints), That("even", Ints), ConcatMap("twice", Ints),
     Lists(Bools), Lists(Ints), Sets(Bools), Dicts(Bools, Ints),
     Dicts(Bools, Bools), Sum(Empty, <<Ints, Bools, Ints>>),
     Product(<<Bools, Ints>>), Product(<<Ints, Ints, Ints>>),
     Mul(Raw(<< <<0>>, <<2, 3>> >>), Raw(<< <<10, 20>>, <<30>> >>)),
     Lists(Raw(<< <<0, 1>> >>))}

InitShared ==
    /\ enum \in SharedRecipes
    /\ users = Consumers
    /\ Fresh

SpecShared == InitShared /\ [][NextStep]_vars

\* C6: two consumptions of one Enumerator, their pulls interleaved at will,
\* each observe the enumerator's tier sequence from tier 0 on, and its end:
\* what one consumer has pulled changes nothing for the other
C6_ConsumersIndependent ==
    \A c \in users :
        /\ seen[c] = Take(enum, Len(seen[c]))
        /\ ended[c] => NumTiers(enum, Len(seen[c]) + 1) = Len(seen[c])

\* both consumers are under way, at different tiers of the same enumerator
C6_Witness ==
    /\ users = {1, 2}
    /\ gen[1] # 0 /\ gen[2] # 0
    /\ Len(seen[1]) >= 3
    /\ Len(seen[2]) = 1
    /\ enum = Lists(Ints)

\* -------------------------------------------------- the registry in use
\* the types a register call is tried on and the objects it is given
RegisterTypes == {"int", "list", "type"}
RegisterObjects ==
    {Bools, That("positive", Ints), Function("lists"), Function("product")}

\* the descriptors a lookup is tried on
Scalars == {Scalar(t) : t \in TypeIds}
Descriptors ==
    Scalars
    \cup {Generic("list", <<a>>) : a \in Scalars}
    \cup {Generic("type", <<a>>) : a \in Scalars}
    \cup {Generic("tuple", <<a, b>>) : a \in Scalars, b \in Scalars}
    \cup {Union(<<a, b>>) : a \in Scalars, b \in Scalars}
    \cup {Generic("tuple", <<>>),
          Generic("tuple", <<Scalar("int"), Scalar("int"), Scalar("int")>>),
          Generic("list", <<Scalar("int"), Scalar("bool")>>),
          Generic("list", <<Generic("list", <<Scalar("int")>>)>>),
          Generic("list", <<Generic("tuple", <<Scalar("bool"), Scalar("int")>>)>>),
          Generic("list", <<Union(<<Scalar("int"), Scalar("bool")>>)>>),
          Generic("list", <<Generic("list", <<Scalar("type")>>)>>),
          Generic("tuple", <<Scalar("int"), Generic("list", <<Scalar("type")>>)>>),
          Generic("tuple", <<Generic("list", <<Scalar("bool")>>), Scalar("type")>>),
          Generic("tuple", <<Scalar("type"), Generic("list", <<Scalar("bool")>>)>>),
          Generic("tuple", <<Generic("list", <<Scalar("int"), Scalar("bool")>>), Scalar("type")>>),
          Union(<<Scalar("int"), Scalar("bool"), Scalar("int")>>),
          Union(<<Generic("list", <<Scalar("int")>>), Generic("tuple", <<Scalar("bool"), Scalar("type")>>)>>),
          Union(<<Scalar("bool"), Union(<<Scalar("int"), Generic("type", <<Scalar("int")>>)>>)>>)}

\* Enumerator.register(t, o)
Register(t, o) ==
    /\ enumerators' = RegisterIn(enumerators, t, o)
    /\ last' = [last EXCEPT ![t] = <<o>>]
    /\ found' = NotFound
    /\ UNCHANGED <<streamVars, toggled, driverVars>>

\* Enumerator[c]
Resolve(c) ==
    /\ found' = [c |-> c, reg |-> enumerators] @@ Find(enumerators, c)
    /\ UNCHANGED <<streamVars, enumerators, last, toggled, driverVars>>

\* check(prop, max_tests=max_tests, verbose=verbose, silent=silent, types=types)
Check(p, types, max_tests, verbose, silent) ==
    /\ checked' = [call |-> "check", p |-> p, types |-> types, max_tests |-> max_tests,
                   verbose |-> verbose, silent |-> silent, reg |-> enumerators]
                  @@ CheckIn(enumerators, p, types, max_tests, verbose, silent)
    /\ UNCHANGED <<streamVars, registryVars, shown, imported, frame>>

\* holds(prop, max_tests=max_tests, types=types)
Holds(p, types, max_tests) ==
    /\ checked' = [call |-> "holds", p |-> p, types |-> types, max_tests |-> max_tests,
                   verbose |-> TRUE, silent |-> TRUE, reg |-> enumerators]
                  @@ HoldsIn(enumerators, p, types, max_tests)
    /\ UNCHANGED <<streamVars, registryVars, shown, imported, frame>>

NextRegistry ==
    \/ \E t \in RegisterTypes, o \in RegisterObjects : Register(t, o)
    \/ \E c \in Descriptors : Resolve(c)

InitRegistry ==
    /\ enum = Empty
    /\ users = {}
    /\ Fresh

SpecRegistry == InitRegistry /\ [][NextRegistry]_vars

RECURSIVE Parts(_)
\* a descriptor and the descriptors inside it, at any depth
Parts(c) == {c} \cup UNION {Parts(c.args[i]) : i \in 1..Len(c.args)}

\* some class of the descriptor, at any depth, has no entry in the registry
Unknown(reg, c) == \E d \in Parts(c) : d.tag # "union" /\ d.id \notin DOMAIN reg

\* every registered origin of the descriptor is a builder that takes the
\* arguments the descriptor gives it
CallsFit(reg, c) ==
    \A d \in Parts(c) :
        (d.tag = "generic" /\ d.id \in DOMAIN reg) =>
            /\ ~IsEnumerator(reg[d.id])
            /\ reg[d.id].f = "lists" => Len(d.args) = 1

Looked == found.c \in Descriptors

\* the lookup has left the registry as it was, and so all that resolves from it
RegistryKept ==
    /\ enumerators = found.reg
    /\ \A d \in Descriptors : Find(enumerators, d) = Find(found.reg, d)

FoundArgs == [i \in 1..Len(found.c.args) |-> Find(found.reg, found.c.args[i]).val[1]]

FoundArgsResolve ==
    \A i \in 1..Len(found.c.args) : Find(found.reg, found.c.args[i]).err = NoError

C9_ScalarGivesStreamOrFails ==
    (Looked /\ found.c.tag = "scalar") =>
        \/ found.err = CouldNotFind
        \/ found.err = NoError /\ IsEnumerator(found.val[1])

\* C10: a lookup of a class gives the object of the latest register call for
\* that class, whatever was registered for it before; a class no register call
\* has named resolves as at start-up; and a lookup leaves the registry as it was
C10_LastWriteWins ==
    /\ \A t \in TypeIds :
          Find(enumerators, Scalar(t)) =
              IF last[t] # <<>> THEN Returned(last[t][1]) ELSE Find(Registered, Scalar(t))
    /\ Looked => enumerators = found.reg

\* list has been registered anew as an enumerator, type has been registered
\* too, and a lookup of list gives the new entry
C10_Witness ==
    /\ last["list"] = <<Bools>>
    /\ last["type"] = <<Function("product")>>
    /\ last["int"] = <<>>
    /\ found.c = Scalar("list")
    /\ found.val = <<Bools>>

\* ------------------------------------------------- the numeric toggles
\* a slip: the toggle registers the integers and leaves the floats
ToggleIntOnly(reg, ifn, ffn) == RegisterIn(reg, "int", Choices(<<Callable(ifn)>>))

\* cls.register(int, cls.choices(gen.ifn)); cls.register(float, cls.choices(gen.ffn))
ToggleIn(reg, ifn, ffn) ==
    RegisterIn(RegisterIn(reg, "int", Choices(<<Callable(ifn)>>)),
               "float", Choices(<<Callable(ffn)>>))

\* one of the three toggles, by its name and the generators it registers
Toggle(name, ifn, ffn) ==
    /\ enumerators' = ToggleIn(enumerators, ifn, ffn)
    /\ last' = [last EXCEPT !["int"] = <<Choices(<<Callable(ifn)>>)>>,
                            !["float"] = <<Choices(<<Callable(ffn)>>)>>]
    /\ found' = NotFound
    /\ toggled' = name
    /\ UNCHANGED <<streamVars, driverVars>>

\* Enumerator.default()
Default == Toggle("default", "ints", "floats")
\* Enumerator.only_positives()
OnlyPositives == Toggle("only_positives", "positive_ints", "positive_floats")
\* Enumerator.only_non_negatives()
OnlyNonNegatives == Toggle("only_non_negatives", "non_negative_ints", "non_negative_floats")

\* the types registered between the toggles and the descriptors looked up
OtherTypes == {"list", "type", "bool"}
NumericDescriptors ==
    {Scalar("int"), Scalar("float"), Scalar("bool"),
     Generic("list", <<Scalar("int")>>),
     Generic("tuple", <<Scalar("int"), Scalar("float")>>),
     Union(<<Scalar("int"), Scalar("float")>>)}

NextNumeric ==
    \/ Default
    \/ OnlyPositives
    \/ OnlyNonNegatives
    \/ \E t \in OtherTypes, o \in RegisterObjects : Register(t, o)
    \/ \E c \in NumericDescriptors : Resolve(c)

SpecNumeric == InitRegistry /\ [][NextNumeric]_vars

\* the first tiers of the integers and of the floats after a toggle
IntTiersOf(name) ==
    CASE name = "only_positives" -> << <<1>>, <<2>>, <<3>>, <<4>>, <<5>> >>
      [] name = "only_non_negatives" -> << <<0>>, <<1>>, <<2>>, <<3>>, <<4>> >>
      [] name = "default" -> << <<0>>, <<1>>, <<-1>>, <<2>>, <<-2>> >>

FloatTiersOf(name) ==
    CASE name = "only_positives" ->
            << << <<1, 1>> >>, << <<1, 2>> >>, << <<2, 1>> >>, << <<1, 3>> >>, << <<3, 2>> >> >>
      [] name = "only_non_negatives" ->
            << << <<0, 1>> >>, << <<1, 1>> >>, << <<1, 2>> >>, << <<2, 1>> >>, << <<1, 3>> >> >>
      [] name = "default" ->
            << << <<0, 1>> >>, << <<1, 1>> >>, << <<-1, 1>> >>, << <<1, 2>> >>, << <<-1, 2>> >> >>

\* C11: after any calls of the toggles, with other registrations between
\* them, the integers and the floats resolved are those of the toggle called
\* last: 1, 2, 3, ... or 0, 1, 2, ... or 0, 1, -1, 2, -2, ..., the floats in
\* the same three shapes; all other entries are those registered for them
C11_LastToggleDecides ==
    toggled # "none" =>
        /\ Find(enumerators, Scalar("int")).err = NoError
        /\ Take(Find(enumerators, Scalar("int")).val[1], 5) = IntTiersOf(toggled)
        /\ Find(enumerators, Scalar("float")).err = NoError
        /\ Take(Find(enumerators, Scalar("float")).val[1], 5) = FloatTiersOf(toggled)
        /\ \A t \in TypeIds \ {"int", "float"} :
              Find(enumerators, Scalar(t)) =
                  IF last[t] # <<>> THEN Returned(last[t][1]) ELSE Find(Registered, Scalar(t))

\* default has been called after another toggle (int has been registered
\* anew), list has a new entry, and the floats have been looked up
C11_Witness ==
    /\ toggled = "default"
    /\ last["list"] = <<Bools>>
    /\ found.c = Scalar("float")
    /\ found.err = NoError

\* ------------------------------------------------- the numeric streams
\* the enumerators the toggles register for int and float
NumberRecipes ==
    {Ints, Floats,
     Choices(<<Callable("positive_ints")>>), Choices(<<Callable("positive_floats")>>),
     Choices(<<Callable("non_negative_ints")>>),
     Choices(<<Callable("non_negative_floats")>>)}

InitNumbers ==
    /\ enum \in NumberRecipes
    /\ users = Consumers
    /\ Fresh

SpecNumbers == InitNumbers /\ [][NextStep]_vars

\* the integer the statement puts in tier i: 0, then k in tier 2k - 1 and -k
\* in tier 2k
IntAt(i) == IF i = 0 THEN 0 ELSE IF i % 2 = 1 THEN (i + 1) \div 2 ELSE -(i \div 2)

\* the k-th positive rational, r_k
RationalAt(k) == Divide(fusc(k), fusc(k + 1))

\* the float the statement puts in tier i: 0.0, then r_k and -r_k
FloatAt(i) ==
    IF i = 0 THEN FloatZero
    ELSE IF i % 2 = 1 THEN RationalAt((i + 1) \div 2)
    ELSE Negate(RationalAt(i \div 2))

NoRepeats(xs) == \A i, j \in 1..Len(xs) : xs[i] = xs[j] => i = j

\* C12: every tier a consumer gets from the default integers holds the one
\* value 0, k (tier 2k - 1) or -k (tier 2k), the first seven being 0, 1, -1,
\* 2, -2, 3, -3 without a repeat; the default floats have the same shape
\* over 0.0, r_k, -r_k
C12_DefaultNumbersShape ==
    /\ enum = Ints =>
          /\ \A c \in users : \A i \in 1..Len(seen[c]) : seen[c][i] = <<IntAt(i - 1)>>
          /\ Flatten(Take(enum, 7)) = <<0, 1, -1, 2, -2, 3, -3>>
          /\ NoRepeats(Flatten(Take(enum, 2 * MaxPull + 1)))
    /\ enum = Floats =>
          /\ \A c \in users : \A i \in 1..Len(seen[c]) : seen[c][i] = <<FloatAt(i - 1)>>
          /\ \A i \in 1..(2 * MaxPull + 1) : Take(enum, 2 * MaxPull + 1)[i] = <<FloatAt(i - 1)>>
          /\ NoRepeats(Flatten(Take(enum, 2 * MaxPull + 1)))

\* a consumer has pulled four tiers of the default floats, another three of them
C12_Witness ==
    /\ enum = Floats
    /\ Len(seen[1]) = 4
    /\ Len(seen[2]) = 3

\* C13: the n-th positive float is fusc(n) / fusc(n + 1); for every n in the
\* bound that pair is in lowest terms with a positive denominator and no other
\* n has the same pair; the first six are 1, 1/2, 2, 1/3, 3/2, 2/3
C13_PositiveRationalsOnce ==
    /\ \A n \in 1..MaxFusc :
          /\ fusc(n + 1) > 0
          /\ GCD(fusc(n), fusc(n + 1)) = 1
          /\ \A m \in 1..MaxFusc :
                <<fusc(m), fusc(m + 1)>> = <<fusc(n), fusc(n + 1)>> => m = n
    /\ enum = Choices(<<Callable("positive_floats")>>) =>
          /\ \A c \in users : \A i \in 1..Len(seen[c]) :
                seen[c][i] = << <<fusc(i), fusc(i + 1)>> >>
          /\ Flatten(Take(enum, 6)) =
                << <<1, 1>>, <<1, 2>>, <<2, 1>>, <<1, 3>>, <<3, 2>>, <<2, 3>> >>
          /\ NoRepeats(Flatten(Take(enum, MaxFusc)))

\* a consumer has pulled four positive floats
C13_Witness ==
    /\ enum = Choices(<<Callable("positive_floats")>>)
    /\ Len(seen[2]) = 4
    /\ seen[2][4] = << <<1, 3>> >>

\* ------------------------------------------------------------- sets, dicts
\* sets of raw streams, their values increasing or decreasing along a tier
SetRecipes ==
    {Sets(t) : t \in RawStreams(0, 1) \cup RawStreams(9, -1)} \cup {Sets(Bools)}

InitSets ==
    /\ enum \in SetRecipes
    /\ users = {1}
    /\ Fresh

SpecSets == InitSets /\ [][NextStep]_vars

\* the values of a finite stream t and the tier a value is in
ValuesOf(t) == Range(Flatten(Take(t, MaxTiers + 1)))
TierOf(t, x) == CHOOSE i \in 0..MaxTiers : x \in Range(TierAt(t, i))

RECURSIVE SetTier(_, _)
\* the tier of sets(t) a set of values of t belongs to: as a list it has one
\* more than its tier for each value
SetTier(t, xs) ==
    IF xs = {} THEN 0
    ELSE LET x == CHOOSE y \in xs : TRUE IN TierOf(t, x) + 1 + SetTier(t, xs \ {x})

\* C14: tier k of sets(T) holds the strictly increasing lists of tier k of
\* lists(T), each as a set; every set of values of T is there exactly once,
\* in the tier of its size; over the single tier [0, 1] the first four sets
\* are {}, {0}, {1}, {0, 1}
C14_SetsExact ==
    LET t == enum.a.a.a
        got == Take(enum, MaxPull + 1)
    IN  /\ \A c \in users : \A k \in 1..Len(seen[c]) :
              seen[c][k] = MapList("set", FilterList("increasing", TierAt(Lists(t), k - 1)))
        /\ \A xs \in SUBSET ValuesOf(t) :
              SetTier(t, xs) <= MaxPull =>
                  /\ Occurrences(xs, Flatten(got)) = 1
                  /\ Occurrences(xs, TierAt(enum, SetTier(t, xs))) = 1
        /\ t = Raw(<< <<0, 1>> >>) => FirstValues(got, 4) = << {}, {0}, {1}, {0, 1} >>

\* the streams of keys: booleans and integers from 0 to 7
DictKeys ==
    {Bools, Raw(<< <<0, 1>> >>), Raw(<< <<0>>, <<1>> >>), Raw(<< <<>>, <<1>> >>),
     Raw(<< <<0>>, <<>>, <<2>> >>)}

DictRecipes ==
    {Dicts(ks, vs) : ks \in DictKeys, vs \in RawStreams(10, 10)}
    \cup {Dicts(Bools, Ints), Dicts(Bools, Bools)}

InitDicts ==
    /\ enum \in DictRecipes
    /\ users = {1}
    /\ Fresh

SpecDicts == InitDicts /\ [][NextStep]_vars

\* a mapping m of the keys xs as a dict, and the tier the statement gives it
DictOf(xs, m) == {<<x, m[x]>> : x \in xs}

RECURSIVE ValueTiers(_, _, _)
\* the sum of the tiers of the values of a mapping
ValueTiers(vs, m, xs) ==
    IF xs = {} THEN 0
    ELSE LET x == CHOOSE y \in xs : TRUE IN TierOf(vs, m[x]) + ValueTiers(vs, m, xs \ {x})

DictTier(ks, vs, xs, m) == SetTier(ks, xs) + ValueTiers(vs, m, xs)

\* C15: K.dicts(V) holds every mapping from a set of values of K to values of
\* V exactly once, in the tier of its set of keys in K.sets() plus the tiers
\* of its values in V; the first six dicts from booleans to integers are {},
\* {False: 0}, {True: 0}, {False: 1}, {True: 1}, {False: 0, True: 0}
C15_DictsExact ==
    LET ks == enum.a.a.a.a
        vs == enum.b
        got == Take(enum, MaxPull + 1)
    IN  /\ \A c \in users : \A k \in 1..Len(seen[c]) : seen[c][k] = TierAt(enum, k - 1)
        /\ (vs.k = "raw" /\ ks \in DictKeys) =>
              \A xs \in SUBSET ValuesOf(ks) : \A m \in [xs -> ValuesOf(vs)] :
                  DictTier(ks, vs, xs, m) <= MaxPull =>
                      /\ Occurrences(DictOf(xs, m), Flatten(got)) = 1
                      /\ Occurrences(DictOf(xs, m), TierAt(enum, DictTier(ks, vs, xs, m))) = 1
        /\ enum = Dicts(Bools, Ints) =>
              FirstValues(got, 6) =
                  << {}, {<<PyFalse, 0>>}, {<<PyTrue, 0>>}, {<<PyFalse, 1>>}, {<<PyTrue, 1>>},
                     {<<PyFalse, 0>>, <<PyTrue, 0>>} >>

\* ------------------------------------------------------ products of many
\* the enumerators multiplied: with and without empty tiers, and empty
TupleOperands ==
    {Bools, Empty, Raw(<< <<0>>, <<1>> >>), Raw(<< <<0, 1>>, <<2>> >>),
     Raw(<< <<>>, <<1>> >>), Raw(<< <<0>>, <<>>, <<2>> >>)}

MaxFactors == 3    \* enumerators in one product

TupleRecipes ==
    {Product(es) : es \in UNION {[1..n -> TupleOperands] : n \in 0..MaxFactors}}
    \cup {Product(<<Ints, Ints, Ints>>), Product(<<Bools, Ints>>)}

InitTuples ==
    /\ enum \in TupleRecipes
    /\ users = {1}
    /\ Fresh

SpecTuples == InitTuples /\ [][NextStep]_vars

RECURSIVE OperandsOf(_)
\* the enumerators a product was made of
OperandsOf(p) == IF p = Product0 THEN <<>> ELSE <<p.a.a>> \o OperandsOf(p.a.b)

RECURSIVE TupleTier(_, _)
\* the sum of the tiers of the values of a tuple in their enumerators
TupleTier(es, vs) ==
    IF es = <<>> THEN 0 ELSE TierOf(Head(es), Head(vs)) + TupleTier(Tail(es), Tail(vs))

\* the tuples of values of the enumerators es
TuplesOf(es) ==
    {vs \in [1..Len(es) -> UNION {ValuesOf(es[i]) : i \in 1..Len(es)}] :
        \A i \in 1..Len(es) : vs[i] \in ValuesOf(es[i])}

\* C16: product() has one tier, holding the empty tuple alone; a product of n
\* enumerators holds flat tuples of n values, every tuple of values of the
\* enumerators once, in the tier that is the sum of the tiers of its values;
\* the first six triples of integers are (0,0,0), (0,0,1), (0,1,0), (1,0,0),
\* (0,0,-1), (0,1,1)
C16_ProductOfMany ==
    LET es == OperandsOf(enum)
        got == Take(enum, MaxPull + 1)
    IN  /\ \A c \in users : \A k \in 1..Len(seen[c]) : seen[c][k] = TierAt(enum, k - 1)
        /\ es = <<>> => Take(enum, 2) = << << <<>> >> >>
        /\ \A i \in 1..Len(Flatten(got)) : Len(Flatten(got)[i]) = Len(es)
        /\ (\A i \in 1..Len(es) : es[i] \in TupleOperands) =>
              \A vs \in TuplesOf(es) :
                  TupleTier(es, vs) <= MaxPull =>
                      /\ Occurrences(vs, Flatten(got)) = 1
                      /\ Occurrences(vs, TierAt(enum, TupleTier(es, vs))) = 1
        /\ enum = Product(<<Ints, Ints, Ints>>) =>
              FirstValues(got, 6) =
                  << <<0, 0, 0>>, <<0, 0, 1>>, <<0, 1, 0>>, <<1, 0, 0>>, <<0, 0, -1>>, <<0, 1, 1>> >>


\* -------------------------------------------------- failing user functions
\* streams a user function fails on: at 0 the integer division of invsq,
\* divides, invsqs and quotient, past the end of its list the index of pick
FailureBases ==
    {Raw(<< <<1>>, <<2>>, <<0>>, <<3>> >>), Raw(<< <<1, 0>>, <<2>> >>),
     Raw(<< <<2, 1>>, <<3, 0>> >>), Raw(<< <<1>>, <<>>, <<2, 0>> >>),
     Raw(<< <<3>>, <<2>> >>), Ints, That("positive", Ints)}

\* streams of lists, the empty list among them
ListBases == {Raw(<< << <<1>> >>, << <<>>, <<2>> >> >>), Lists(Bools)}

FailureRecipes ==
    {Map(f, t) : f \in {"invsq", "pick"}, t \in FailureBases}
    \cup {That("divides", t) : t \in FailureBases}
    \cup {ConcatMap("invsqs", t) : t \in FailureBases}
    \cup {Cons("quotient", <<Raw(<< <<4>>, <<6>> >>), t>>) :
              t \in {Raw(<< <<1, 0>>, <<2>> >>), Raw(<< <<2, 1>>, <<3, 0>> >>),
                     Raw(<< <<3>>, <<2>> >>), That("positive", Ints)}}
    \cup {Map("first", t) : t \in ListBases}
    \cup {That("leading", t) : t \in ListBases}
    \cup {ConcatMap("firsts", t) : t \in ListBases}

\* the properties and the numbers of tests check is called with
FailureProps == {"always", "never", "nothing"}
MaxTests == 5

NextFailures ==
    \/ \E c \in Consumers : OpenTiers(c)
    \/ \E c \in Consumers : PullTier(c)
    \/ Register("type", enum)
    \/ \E p \in FailureProps, n \in 0..MaxTests, v \in BOOLEAN :
           Check(p, <<Scalar("type")>>, n, v, FALSE)

InitFailures ==
    /\ enum \in FailureRecipes
    /\ users = {1}
    /\ Fresh

SpecFailures == InitFailures /\ [][NextFailures]_vars

\* the error the user function of the enumerator e raises on the value x
FailureOn(e, x) == IF e.k = "concatmap" THEN FailsEnum(e.f, x) ELSE Fails1(e.f, x)

\* the tiers of the stream the user function of e is applied to
BaseTiers(e) == Take(e.a, MaxPull + 1)

\* the places in the list xs of the values the function of e fails on
FailingValues(e, xs) == {i \in 1..Len(xs) : FailureOn(e, xs[i]) # "none"}

\* the tiers among base, counted from 1, with a value the function fails on
FailingTiers(e, base) == {k \in 1..Len(base) : FailingValues(e, base[k]) # {}}

\* the least of a set of numbers
Least(ns) == CHOOSE k \in ns : \A j \in ns : k <= j

\* the error of the first value of xs the function of e fails on
FirstError(e, xs) == FailureOn(e, xs[Least(FailingValues(e, xs))])

\* tier j (from 1) of e where the function has not failed up to it
NormalTier(e, base, j) ==
    CASE e.k = "map" -> MapList(e.f, base[j])
      [] e.k = "that" -> FilterList(e.f, base[j])
      [] e.k = "concatmap" ->
            LET n == IF j < Len(base) THEN j ELSE Len(base) IN
            TierAt(ConcatMap(e.f, Raw(SubSeq(base, 1, n))), j - 1)

\* a failure of the user function of map, that, cons or concatmap on a value
\* of tier k reaches the consumer at its pull of tier k, as the error the
\* function raised or, if escaped, as what that error is on leaving a
\* generator, after tiers 0..k-1 were delivered as they are without a
\* failure, and the stream neither ends nor goes on; and a failure raised while check enumerates the arguments leaves
\* check as that error, with no report
FailuresReach(escaped) ==
    /\ \A base \in {BaseTiers(enum)} : \A bad \in {FailingTiers(enum, base)} :
       \A c \in users :
          /\ \A j \in 1..Len(seen[c]) : seen[c][j] = NormalTier(enum, base, j)
          /\ bad = {} => raised[c] = "none"
          /\ bad # {} =>
                \A k \in {Least(bad)} : \A raw \in {FirstError(enum, base[k])} :
                \A err \in {IF escaped THEN Escaping(raw) ELSE raw} :
                    /\ Len(seen[c]) < k
                    /\ ~ended[c]
                    /\ raised[c] \in {"none", err}
                    /\ raised[c] = err => Len(seen[c]) = k - 1
                    /\ gen[c] # 0 /\ Len(seen[c]) = k - 1 /\ raised[c] = "none"
                          => Next(heap[gen[c]]).err = err
    /\ checked.call = "check" /\ "type" \in DOMAIN checked.reg =>
          \A it \in {FlatTake(Product(<<checked.reg["type"]>>), checked.max_tests)} :
              /\ it.err # "none"
                 /\ (\A i \in 1..Len(it.vals) :
                        PropResult(checked.p, it.vals[i]) \in {"true", "skip"})
                    => /\ checked.ret = "raised"
                       /\ checked.err = it.err
                       /\ checked.report = "none"
              /\ checked.err \notin {"none", "UnboundLocalError"} => checked.err = it.err

\* C17 as stated: a failure of the user function on a value of tier k is
\* never swallowed or converted, the pull of tier k fails with that same
\* error after tiers 0..k-1, and a failure while check enumerates the
\* arguments propagates out of check
C17_FailuresPropagateUnchanged == FailuresReach(FALSE)

\* C17: a failure of the user function on a value of tier k is never
\* swallowed, the pull of tier k fails with that same error after tiers
\* 0..k-1, a StopIteration of the function reaching the consumer as a
\* RuntimeError, and a failure while check enumerates the arguments
\* propagates out of check
C17_FailuresPropagate == FailuresReach(TRUE)

\* the pull of the failing tier has raised the function's error after a tier
\* was delivered, and check has raised it after a test
C17_Witness ==
    /\ \E c \in users :
          /\ raised[c] = "ZeroDivisionError"
          /\ Len(seen[c]) = 2
          /\ enum.k = "map"
    /\ checked.ret = "raised"
    /\ checked.err = "ZeroDivisionError"
    /\ Len(checked.evaluated) = 2

\* ------------------------------------------------------------ check, holds
\* the enumerators registered for the type the properties are tried on
CheckObjects ==
    {Empty, That("even", Ints), Map("invsq", Raw(<< <<1>>, <<2>>, <<0>>, <<3>> >>))}

\* the properties with the types of their parameters
CheckCalls ==
    {<<"double_ge", <<Scalar("int")>> >>,
     <<"increase", <<Scalar("int"), Scalar("int")>> >>,
     <<"nonzero_above", <<Scalar("int")>> >>,
     <<"never", <<Scalar("int")>> >>, <<"inverse", <<Scalar("int")>> >>,
     <<"always", <<Scalar("bool")>> >>,
     <<"always", <<Scalar("type")>> >>, <<"nonzero_above", <<Scalar("type")>> >>,
     <<"always", <<Scalar("bool"), Scalar("type")>> >>}

\* verbose and silent as check is called
CheckFlags == {<<TRUE, FALSE>>, <<FALSE, FALSE>>, <<TRUE, TRUE>>}

NextCheck ==
    \/ \E o \in CheckObjects : Register("type", o)
    \/ \E call \in CheckCalls, n \in 0..MaxTests, vs \in CheckFlags :
           Check(call[1], call[2], n, vs[1], vs[2])
    \/ \E call \in CheckCalls, n \in 0..MaxTests : Holds(call[1], call[2], n)

SpecCheck == InitRegistry /\ [][NextCheck]_vars

\* the enumerators of the types of the latest call, found in the registry
\* of that call
CheckedEnums == [i \in 1..Len(checked.types) |-> Find(checked.reg, checked.types[i])]

\* the argument tuples of the latest call: the first max_tests values of the
\* flattened product
CheckedArgs ==
    FlatTake(Product([i \in 1..Len(checked.types) |-> CheckedEnums[i].val[1]]),
             checked.max_tests)

\* the latest call has its enumerators and they enumerate without an error
Enumerable == Failed(CheckedEnums) = {} /\ CheckedArgs.err = "none"

\* the places of the tuples xs that make the property p answer one of rs
Answering(p, xs, rs) == {i \in 1..Len(xs) : PropResult(p, xs[i]) \in rs}

\* the places of the tuples that fail the property: a false value or an
\* error that is not the skip
Failing(p, xs) == {i \in 1..Len(xs) : PropResult(p, xs[i]) \notin {"true", "skip"}}

\* C18: check returns False exactly when one of the first max_tests tuples
\* of the flattened product makes the property false or raise an error
\* other than the skip; it then reports the first such tuple itself as test
\* number index + 1 and has evaluated the property on no later tuple;
\* otherwise it returns True; and holds returns the boolean check returns
C18_CheckDecides ==
    checked.call # "none" /\ Enumerable =>
        \A xs \in {CheckedArgs.vals} : \A bad \in {Failing(checked.p, xs)} :
            /\ checked.ret = "False" <=> bad # {}
            /\ bad = {} => checked.ret = "True"
            /\ bad # {} =>
                  /\ checked.evaluated = SubSeq(xs, 1, Least(bad))
                  /\ ~checked.silent =>
                        /\ checked.report \in {"failed", "exception"}
                        /\ checked.tests = Least(bad)
                        /\ checked.args = xs[Least(bad)]
            /\ checked.call = "holds" =>
                  checked.ret = CheckIn(checked.reg, checked.p, checked.types,
                                        checked.max_tests, TRUE, FALSE).ret

\* C19: an input the precondition is unmet on does not make check return
\* False, check goes on to the next input, and the number of passed tests
\* check reports at the end does not include it
C19_SkippedNotCounted ==
    checked.call = "check" /\ Enumerable =>
        \A xs \in {CheckedArgs.vals} : \A bad \in {Failing(checked.p, xs)} :
            /\ bad = {} => checked.evaluated = xs
            /\ bad # {} => checked.evaluated = SubSeq(xs, 1, Least(bad))
            /\ checked.ret = "False" =>
                  PropResult(checked.p, checked.evaluated[Len(checked.evaluated)]) # "skip"
            /\ checked.report = "ok" =>
                  checked.tests =
                      Len(xs) - Cardinality(Answering(checked.p, xs, {"skip"}))

\* ------------------------------------------------------- bounded renderings
\* the lengths set_repr_length and set_str_length are called with
MaxLength == 2

\* the streams rendered: of single values up to one more than the default
\* length, with empty tiers, with empty tiers without end, without end
RenderRecipes ==
    {Raw(RawTiers([i \in 1..n |-> 1], 0, 1)) : n \in 0..(DefaultLength + 1)}
    \cup {Raw(<< <<0, 1>>, <<>>, <<2>> >>), Raw(<< <<>>, <<>> >>)}
    \cup {Endless(<<>>), Endless(<< <<0>> >>), Endless(<< <<0, 1>>, <<>>, <<2>> >>)}
    \cup {Ints, Bools, That("even", Ints)}

\* Enumerator.set_repr_length(n)
SetReprLength(n) ==
    /\ shown.op = "none" \/ shown.done
    /\ shown' = [NotShown EXCEPT !.repr_len = n, !.str_len = shown.str_len]
    /\ UNCHANGED <<streamVars, registryVars, checked, imported, frame>>

\* Enumerator.set_str_length(n)
SetStrLength(n) ==
    /\ shown.op = "none" \/ shown.done
    /\ shown' = [NotShown EXCEPT !.repr_len = shown.repr_len, !.str_len = n]
    /\ UNCHANGED <<streamVars, registryVars, checked, imported, frame>>

\* repr(enum) up to its islice: l = self._repr_len and self.tiers()
Repr ==
    /\ shown.op = "none" \/ shown.done
    /\ shown' = [NotShown EXCEPT !.repr_len = shown.repr_len, !.str_len = shown.str_len,
                                 !.op = "repr", !.l = shown.repr_len, !.g = Open(enum)]
    /\ UNCHANGED <<streamVars, registryVars, checked, imported, frame>>

\* str(enum) up to its islice: l = self._str_len and iter(self)
Str ==
    /\ shown.op = "none" \/ shown.done
    /\ shown' = [NotShown EXCEPT !.repr_len = shown.repr_len, !.str_len = shown.str_len,
                                 !.op = "str", !.l = shown.str_len, !.g = Open(enum)]
    /\ UNCHANGED <<streamVars, registryVars, checked, imported, frame>>

\* the rendering ends with the items xs
Rendered(sh, g, xs) ==
    [sh EXCEPT !.g = g, !.got = xs, !.odd = ~sh.odd, !.done = TRUE,
               !.text = Ellipsized(xs, sh.l)]

\* one next() on the tiers of the rendering: islice takes l + 1 tiers for
\* repr and, through flatten, l + 1 values for str, and asks for no more
RenderPulled(sh) ==
    LET r == Next(sh.g)
        xs == IF sh.op = "repr" THEN Append(sh.got, r.val) ELSE sh.got \o r.val
    IN  IF r.err # "none"
        THEN [sh EXCEPT !.g = r.g, !.odd = ~sh.odd, !.done = TRUE, !.err = r.err]
        ELSE IF r.stop THEN Rendered(sh, r.g, sh.got)
        ELSE IF Len(xs) >= sh.l + 1 THEN Rendered(sh, r.g, SubSeq(xs, 1, sh.l + 1))
        ELSE [sh EXCEPT !.g = r.g, !.got = xs, !.odd = ~sh.odd]

RenderStep ==
    /\ shown.op # "none"
    /\ ~shown.done
    /\ shown' = RenderPulled(shown)
    /\ UNCHANGED <<streamVars, registryVars, checked, imported, frame>>

NextRender ==
    \/ \E n \in 0..MaxLength : SetReprLength(n)
    \/ \E n \in 0..MaxLength : SetStrLength(n)
    \/ Repr
    \/ Str
    \/ RenderStep

InitRender ==
    /\ enum \in RenderRecipes
    /\ users = {}
    /\ Fresh

\* a call of repr or str that has begun goes on until it returns
SpecRender == InitRender /\ [][NextRender]_vars /\ WF_vars(RenderStep)

\* how many tiers are looked at to know the tiers and the values of a stream
\* rendered: none of the finite ones has more tiers, and the others have
\* DefaultLength + 1 values by then
RenderDepth == 2 * DefaultLength + 2

\* the tiers and the values of the stream rendered
AllTiers == Take(enum, RenderDepth)
AllValues == Flatten(AllTiers)

\* the first n of xs, or all of xs when it has no more than n
FirstOf(xs, n) == IF Len(xs) > n THEN SubSeq(xs, 1, n) ELSE xs

\* a rendering is as the claim says: N is the length last set, 6 by default,
\* at most N + 1 tiers (repr) or values (str) are consumed, and the text has
\* the first N of them, with the ellipsis exactly when there are more than N
RenderedBounded ==
    /\ shown.op = "repr" => shown.l = shown.repr_len
    /\ shown.op = "str" => shown.l = shown.str_len
    /\ shown.op # "none" => Len(shown.got) <= shown.l + 1
    /\ shown.done /\ shown.op = "repr" =>
          shown.text = Text(FirstOf(AllTiers, shown.l), Len(AllTiers) > shown.l)
    /\ shown.done /\ shown.op = "str" =>
          shown.text = Text(FirstOf(AllValues, shown.l), Len(AllValues) > shown.l)

\* C20: the rendering of every stream is bounded: repr consumes at most N + 1
\* tiers and str at most N + 1 values and then ends, with the first N tiers
\* or values and the ellipsis exactly when more than N exist; N is 6 by
\* default and what set_repr_length or set_str_length last set; also for a
\* stream with a run of empty tiers without end after its values
C20_RenderingBounded ==
    /\ []RenderedBounded
    /\ [](shown.op # "none" => <>shown.done)

\* --------------------------------------------------------- the module loaded
\* the characters, and the strings as lists of characters joined
Chars == Choices(<<Callable("chars")>>)
Strings == Map("join", Lists(Chars))

\* the descriptors looked up once the module is loaded
StartupDescriptors ==
    Descriptors
    \cup {Scalar("str"), Generic("list", <<Scalar("str")>>),
          Generic("tuple", <<Scalar("str"), Scalar("int")>>),
          Union(<<Scalar("str"), Scalar("int")>>)}

\* the statements of the module run: the registrations up to the statement
\* that raises
Import ==
    /\ ~imported.done
    /\ enumerators' = Loaded.reg
    /\ imported' = Imported(Loaded.err)
    /\ UNCHANGED <<streamVars, last, found, toggled, checked, shown, frame>>

\* Enumerator[c] once the module is loaded
ResolveLoaded(c) ==
    /\ imported.done
    /\ Resolve(c)

NextStartup ==
    \/ Import
    \/ \E c \in StartupDescriptors : ResolveLoaded(c)

InitStartup ==
    /\ enum = Empty
    /\ users = {}
    /\ heap = <<>>
    /\ gen = [c \in Consumers |-> 0]
    /\ seen = [c \in Consumers |-> <<>>]
    /\ ended = [c \in Consumers |-> FALSE]
    /\ raised = [c \in Consumers |-> "none"]
    /\ enumerators = NoEntries
    /\ last = [t \in TypeIds |-> <<>>]
    /\ found = [NotFound EXCEPT !.reg = NoEntries]
    /\ toggled = "none"
    /\ checked = [NotChecked EXCEPT !.reg = NoEntries]
    /\ shown = NotShown
    /\ imported = NotImported
    /\ frame = NoFrame

SpecStartup == InitStartup /\ [][NextStartup]_vars

\* C21: once the module is loaded the registry has an entry for str, and
\* resolving str gives the stream whose tier k is tier k of the lists of
\* characters, each list joined into a string: tier 0 is [''], tier 1 is
\* ['a'] and tier 2 is ['aa', ' ']
C21_StringsRegistered ==
    imported.done =>
        /\ imported.err = "none"
        /\ "str" \in DOMAIN enumerators
        /\ Find(enumerators, Scalar("str")).err = NoError
        /\ \A e \in {Find(enumerators, Scalar("str")).val[1]} :
              /\ \A k \in 0..2 : TierAt(e, k) = MapList("join", TierAt(Lists(Chars), k))
              /\ Take(e, 3) = << << <<>> >>, << <<97>> >>, << <<97, 97>>, <<32>> >> >>
              /\ found.c = Scalar("str") => found.err = NoError /\ found.val = <<e>>

\* ------------------------------------------------------- an always-empty side
\* the streams without values: no tiers, some empty tiers, empty tiers
\* without end
Valueless ==
    {Raw([i \in 1..n |-> <<>>]) : n \in 0..(MaxTiers + 1)} \cup {Endless(<<>>)}

\* the streams on the other side
CollapseSides ==
    RawStreams(0, 1) \cup {Ints, Bools, That("even", Ints), Endless(<< <<0>> >>)}

CollapseRecipes ==
    UNION {{Mul(x, e), Mul(e, x), Add(x, e), Add(e, x)} :
              x \in CollapseSides, e \in Valueless}

InitCollapse ==
    /\ enum \in CollapseRecipes
    /\ users = {1}
    /\ Fresh

SpecCollapse == InitCollapse /\ [][NextStep]_vars

\* the sides of a sum or product of two whose other side has no values
OtherSides(e) ==
    (IF e.b \in Valueless THEN {e.a} ELSE {}) \cup (IF e.a \in Valueless THEN {e.b} ELSE {})

\* the side without values that comes with the side x
EmptySide(e, x) == IF x = e.a /\ e.b \in Valueless THEN e.b ELSE e.a

\* the next pull of the consumer c ends its stream
EndsNext(c) == Next(heap[gen[c]]).stop /\ Next(heap[gen[c]]).err = "none"

\* the product with a side without values has no values and no tiers: the
\* first pull ends it
ProductCollapses ==
    \A c \in users :
        enum.k = "mul" =>
            /\ seen[c] = <<>>
            /\ raised[c] = "none"
            /\ gen[c] # 0 /\ ~ended[c] => EndsNext(c)

\* C22 as stated: the product of a stream with a stream without values has
\* no values and ends after finitely many pulls, and the sum of a stream S
\* with a stream without values has exactly the tiers of S and ends when S
\* ends
C22_EmptySidePassThrough ==
    /\ ProductCollapses
    /\ \A c \in users :
          enum.k = "add" =>
              \A x \in OtherSides(enum) : \A ts \in {Take(x, MaxPull + 1)} :
                  /\ Len(seen[c]) <= Len(ts)
                  /\ seen[c] = SubSeq(ts, 1, Len(seen[c]))
                  /\ gen[c] # 0 /\ ~ended[c] =>
                        (EndsNext(c) <=> Len(seen[c]) = Len(ts))

\* C22: the product of a stream with a stream without values has no values
\* and ends at its first pull; the sum of a stream S with a stream without
\* values has the tiers of S, followed by an empty tier for each tier the
\* other stream has beyond the end of S, and ends when both have ended
C22_EmptySideCollapses ==
    /\ ProductCollapses
    /\ \A c \in users :
          enum.k = "add" =>
              \A x \in OtherSides(enum) :
              \A n \in {Max({NumTiers(x, MaxPull + 1),
                             NumTiers(EmptySide(enum, x), MaxPull + 1)})} :
                  /\ Len(seen[c]) <= n
                  /\ \A j \in 1..Len(seen[c]) : seen[c][j] = TierAt(x, j - 1)
                  /\ gen[c] # 0 /\ ~ended[c] => (EndsNext(c) <=> Len(seen[c]) = n)

\* the sum of a stream of one tier with a stream of two empty tiers has
\* ended after the tier and one empty tier
C22_Witness ==
    /\ enum = Add(Raw(<< <<0>> >>), Raw(<< <<>>, <<>> >>))
    /\ seen[1] = << <<0>>, <<>> >>
    /\ ended[1]

\* ------------------------------------- the toggles and the built presets
\* Enumerator.cons(ty, *etys) with classes for etys: each class is looked up
\* when cons is called, and the enumerators found then are the ones the
\* product is made of
ConsIn(reg, ty, etys) ==
    LET rs == [i \in 1..Len(etys) |-> Find(reg, Scalar(etys[i]))]
        first == CHOOSE i \in Failed(rs) : \A j \in Failed(rs) : i <= j
    IN  IF Failed(rs) # {} THEN rs[first]
        ELSE Returned(Cons(ty, [i \in 1..Len(etys) |-> rs[i].val[1]]))

\* the presets: the class registered and the classes it is built from
Presets == {<<"complex", <<"float", "float">> >>, <<"range", <<"int", "int">> >>}

\* Enumerator.register(ty, Enumerator.cons(ty, *etys)), as the statements
\* that register complex and range
RegisterCons(ty, etys) ==
    /\ ConsIn(enumerators, ty, etys).err = NoError
    /\ enumerators' = RegisterIn(enumerators, ty, ConsIn(enumerators, ty, etys).val[1])
    /\ found' = NotFound
    /\ UNCHANGED <<streamVars, last, toggled, driverVars>>

PresetDescriptors ==
    {Scalar("int"), Scalar("float"), Scalar("range"), Scalar("complex"),
     Generic("list", <<Scalar("int")>>),
     Generic("tuple", <<Scalar("int"), Scalar("float")>>)}

NextPresets ==
    \/ Default
    \/ OnlyPositives
    \/ OnlyNonNegatives
    \/ \E p \in Presets : RegisterCons(p[1], p[2])
    \/ \E c \in PresetDescriptors : Resolve(c)

SpecPresets == InitRegistry /\ [][NextPresets]_vars

\* every numeric component of a value of the descriptor is above zero; a
\* float is a numerator and a denominator
PositiveValue(c, v) ==
    CASE c = Scalar("int") -> v > 0
      [] c = Scalar("float") -> v[1] > 0
      [] c = Scalar("range") -> v.start > 0 /\ v.stop > 0
      [] c = Scalar("complex") -> v.real[1] > 0 /\ v.imag[1] > 0
      [] c = Generic("list", <<Scalar("int")>>) -> \A i \in 1..Len(v) : v[i] > 0
      [] c = Generic("tuple", <<Scalar("int"), Scalar("float")>>) -> v[1] > 0 /\ v[2][1] > 0

\* the tiers of a resolved enumeration that are looked at
PresetDepth == 3

\* C23: after only_positives() and until another toggle, every value of an
\* enumeration resolved from the registry (int, float, list[int],
\* tuple[int,float], and the presets range and complex built from the streams
\* of int and float) has all its numeric components above zero
C23_RestrictionReachesPresets ==
    (toggled = "only_positives" /\ found.c \in PresetDescriptors /\ found.err = NoError) =>
        \A vs \in {Flatten(Take(found.val[1], PresetDepth))} :
            \A i \in 1..Len(vs) : PositiveValue(found.c, vs[i])

\* ------------------------------------------ check over one parameter
\* the values of the stream of the one parameter of the latest call: the
\* first max_tests values of the flattened stream resolved for its type
CheckedValues == FlatTake(CheckedEnums[1].val[1], checked.max_tests)

\* (x,) for each x of xs
Singletons(xs) == [i \in 1..Len(xs) |-> <<xs[i]>>]

\* C24: check of a property of one parameter that no test fails, when there
\* is a value to test, evaluates the property on the first min(max_tests,
\* number of values) values of the flattened stream resolved for the type,
\* in order, and reports that number, also when the stream has empty tiers
\* between non-empty ones
C24_CheckCoversStream ==
    (/\ checked.call = "check"
     /\ Len(checked.types) = 1
     /\ Failed(CheckedEnums) = {}) =>
        \A r \in {CheckedValues} :
            (/\ r.err = "none"
             /\ r.vals # <<>>
             /\ Failing(checked.p, Singletons(r.vals)) = {}) =>
                /\ checked.evaluated = Singletons(r.vals)
                /\ checked.ret = "True"
                /\ (checked.verbose /\ ~checked.silent) =>
                      /\ checked.report = "ok"
                      /\ checked.tests = Len(r.vals)

\* C28: check of a call that has no input to test (max_tests = 0, or a
\* product of the parameters' enumerations without values) returns True and
\* raises nothing, whatever verbose and silent are, and what it reports, if
\* it reports, is zero tests
C28_NoInputCompletes ==
    (/\ checked.call \in {"check", "holds"}
     /\ Enumerable
     /\ CheckedArgs.vals = <<>>) =>
        /\ checked.ret = "True"
        /\ checked.err = "none"
        /\ checked.evaluated = <<>>
        /\ checked.report \in {"none", "ok"}
        /\ checked.report = "ok" => checked.tests = 0

\* ------------------------------------------------ how far inputs are read
\* the sides of the products and the element streams of the lists
OnlineSides ==
    {Ints, Bools, That("even", Ints), Endless(<< <<0>> >>),
     Raw(<< <<0>>, <<1>> >>), Raw(<< <<>>, <<1, 2>> >>), Empty}

OnlineRecipes ==
    {Mul(x, y) : x \in OnlineSides, y \in OnlineSides} \cup {Lists(x) : x \in OnlineSides}

InitOnline ==
    /\ enum \in OnlineRecipes
    /\ users = {1}
    /\ Fresh

SpecOnline == InitOnline /\ [][NextStep]_vars

RECURSIVE Advanced(_, _)
\* the generator g after n calls of next() on it
Advanced(g, n) == IF n = 0 THEN g ELSE Advanced(Next(g).g, n - 1)

\* the generator of e tells how many times it has been asked for a tier:
\* each call of next() leaves it where no earlier call did
Counting(e) ==
    \A n \in 0..MaxPull : Advanced(Open(e), n) # Advanced(Open(e), n + 1)

\* the generator g of an input made by the enumerator e has been asked for
\* a tier n times, no more and no less
PulledExactly(g, e, n) ==
    /\ g = Advanced(Open(e), n)
    /\ Counting(e) => g # Advanced(Open(e), n + 1)

\* the output tiers the consumer has demanded: those it has seen and the one
\* that ended the stream
Demanded(c) == Len(seen[c]) + (IF ended[c] THEN 1 ELSE 0)

\* C25: the product and lists() read their inputs as their output is
\* demanded: nothing is read before the first output tier is demanded; when
\* output tiers 0..k of a product have been demanded, each input has been
\* asked for a tier k + 1 times, once for each output tier; lists() gives
\* its first tier reading nothing, and when its output tiers 0..k have been
\* demanded, the element stream and the recursive stream of lists have each
\* been asked for a tier k times
C25_InputsReadOnDemand ==
    \A c \in users :
        (gen[c] # 0 /\ raised[c] = "none") =>
            \A g \in {heap[gen[c]]} : \A d \in {Demanded(c)} :
                /\ enum.k = "mul" =>
                      /\ g.l = d /\ Len(g.xss_) = d /\ Len(g.yss_) = d
                      /\ PulledExactly(g.xss, enum.a, d)
                      /\ PulledExactly(g.yss, enum.b, d)
                /\ enum.k = "lists" =>
                      /\ d = 0 => g = ListssGen(enum.a)
                      /\ d = 1 => g.inner = <<>>
                      /\ d >= 2 =>
                            /\ g.inner[1].l = d - 1
                            /\ PulledExactly(g.inner[1].xss, enum.a, d - 1)
                            /\ PulledExactly(g.inner[1].yss, Lists(enum.a), d - 1)

\* three tiers of the product of the integers with themselves have been
\* demanded, and each input is where three calls of next() leave it
C25_Witness ==
    /\ enum = Mul(Ints, Ints)
    /\ Len(seen[1]) = 3
    /\ heap[gen[1]].xss = Advanced(Open(Ints), 3)
    /\ heap[gen[1]].xss # Advanced(Open(Ints), 2)

\* --------------------------------------------------------- concatmap
\* the functions mapped and the enumerators they are mapped over
ConcatFunctions == {"twice", "ramp", "gap", "none"}
ConcatRecipes ==
    {ConcatMap(f, a) : f \in ConcatFunctions,
                       a \in RawStreams(0, 1) \cup {Raw(<< <<1>>, <<>>, <<>> >>), Ints}}

InitConcat ==
    /\ enum \in ConcatRecipes
    /\ users = {1}
    /\ Fresh

SpecConcat == InitConcat /\ [][NextStep]_vars

\* tier j of f(x)
SubTier(f, x, j) == TierAt(ApplyEnum(f, Empty, x), j)

\* what the values of tier i of S bring to tier t of the output: tier t - i
\* of f(x) for each x of the tier, in the order of the tier
FromTier(f, S, i, t) ==
    LET xs == TierAt(S, i) IN Concat([n \in 1..Len(xs) |-> SubTier(f, xs[n], t - i)])

\* tier t of the diagonal merge: what tiers 0..t of S bring to it, earlier
\* tiers first
MergedTier(f, S, t) == Concat([i \in 1..(t + 1) |-> FromTier(f, S, i - 1, t)])

\* tier of x + number of tiers of f(x), for every value x of S
Reaches(f, S) ==
    UNION {{i + NumTiers(ApplyEnum(f, Empty, x), MaxPull + 1) : x \in Range(TierAt(S, i))} :
               i \in 0..(NumTiers(S, MaxPull + 1) - 1)}

\* S ends within the tiers a consumer pulls
EndsSoon(S) == NumTiers(S, MaxPull + 1) <= MaxPull

\* each tier a consumer has seen is the tier of the diagonal merge
MergedDiagonally ==
    \A c \in users :
        \A t \in 1..Len(seen[c]) : seen[c][t] = MergedTier(enum.f, enum.a, t - 1)

\* the consumer has seen n tiers exactly when the stream ends
EndsAt(c, n) ==
    /\ Len(seen[c]) <= n
    /\ ended[c] => Len(seen[c]) = n
    /\ (gen[c] # 0 /\ ~ended[c] /\ Len(seen[c]) = n) => EndsNext(c)

\* C26 as stated: concatmap merges diagonally, and over a finite S with
\* finite f(x) it has max over x of (tier of x + number of tiers of f(x))
\* tiers
C26_DiagonalMergeReach ==
    /\ MergedDiagonally
    /\ \A c \in users :
          EndsSoon(enum.a) => EndsAt(c, Max({0} \cup Reaches(enum.f, enum.a)))

\* C26: concatmap merges diagonally: tier t of S.concatmap(f) is, for
\* i = 0..t in this order, and for each x of tier i of S in the order of the
\* tier, the values of tier t - i of f(x); over a finite S with finite f(x)
\* it has as many tiers as the greater of the number of tiers of S and the
\* max over x of (tier of x + number of tiers of f(x))
C26_DiagonalMerge ==
    /\ MergedDiagonally
    /\ \A c \in users :
          EndsSoon(enum.a) =>
              EndsAt(c, Max({NumTiers(enum.a, MaxPull + 1)} \cup Reaches(enum.f, enum.a)))

\* the integers each mapped to the tiers [[x],[x]]: [[0],[0,1],[1,-1],[-1,2]]
C26_Witness ==
    /\ enum = ConcatMap("twice", Ints)
    /\ seen[1] = << <<0>>, <<0, 1>>, <<1, -1>>, <<-1, 2>> >>

\* ------------------------------------------------- sets of frozensets
\* the tiers of a stream of sets of frozensets that a consumer pulls
NestedDepth == 5

\* the streams T of set[frozenset[T]]
NestedOver == {Bools, Raw(<< <<0, 1>> >>), Raw(<< <<0>>, <<1>> >>)}

PullNested(c) == PullWithin(c, NestedDepth)

NextNested ==
    \/ \E c \in Consumers : OpenTiers(c)
    \/ \E c \in Consumers : PullNested(c)

InitNested ==
    /\ enum \in {SetsOfFrozenSets(t) : t \in NestedOver}
    /\ users = Consumers
    /\ Fresh

SpecNested == InitNested /\ [][NextNested]_vars

RECURSIVE Total(_, _)
\* the sum of w[x] over the members x of S
Total(w, S) ==
    IF S = {} THEN 0
    ELSE LET x == CHOOSE y \in S : TRUE IN w[x] + Total(w, S \ {x})

\* the tier of the lists of a stream that the lists of the members of S,
\* each once, are in: one for each member plus the tier of the member
ListTier(tier, S) == Total([x \in S |-> 1 + tier[x]], S)

\* the tier of the frozensets of t each frozenset is in
FrozenTier(t) == [F \in SUBSET ValuesOf(t) |-> SetTier(t, F)]

\* set(frozenset(F) for F in s)
AsSetOfFrozenSets(s) == {Apply1("frozenset", F) : F \in s}

\* C27: the stream of set[frozenset[T]] has every set of frozensets over the
\* values of T once, sets of frozensets that do not include one another too:
\* a consumer that has seen the tiers where the lists of the members of a
\* set are has seen the set, once
C27_NestedSetsComplete ==
    \A c \in users : \A xs \in {Flatten(seen[c])} :
        /\ \A i \in 1..Len(xs) : Occurrences(xs[i], xs) = 1
        /\ \A tier \in {FrozenTier(enum.a.a.a.a.a.a.a)} :
           \A s \in SUBSET (DOMAIN tier) :
              ListTier(tier, s) < Len(seen[c]) =>
                  Occurrences(AsSetOfFrozenSets(s), xs) = 1

\* ------------------------------------------- choices of one sequence
\* list(range(n))
RangeItems(n) == [i \in 1..n |-> i - 1]

\* the sequences choices is given: lists, a range, generator functions, and
\* iterator objects made before (in heap cell 1)
ChoiceSequences ==
    {Iterable(<<3, 1, 7>>), Iterable(<<>>), Iterable(<<5>>), Iterable(RangeItems(3)),
     Callable("three"), Callable("ints"), Callable("positive_ints"),
     Created(1, <<3, 1, 7>>), Created(1, <<5>>), Created(1, RangeItems(3))}

InitChoices ==
    /\ enum \in {Choices(<<obj>>) : obj \in ChoiceSequences}
    /\ users = Consumers
    /\ heap = IF enum.iis[1].kind = "iterator" THEN <<ListIter(enum.iis[1].xs)>> ELSE <<>>
    /\ gen = [c \in Consumers |-> 0]
    /\ seen = [c \in Consumers |-> <<>>]
    /\ ended = [c \in Consumers |-> FALSE]
    /\ raised = [c \in Consumers |-> "none"]
    /\ enumerators = Registered
    /\ last = [t \in TypeIds |-> <<>>]
    /\ found = NotFound
    /\ toggled = "none"
    /\ checked = NotChecked
    /\ shown = NotShown
    /\ imported = Imported(Loaded.err)
    /\ frame = NoFrame

\* the generator of choices of one sequence reads an iterator object of the heap
Shares(g) == g.gs[1].it.k = "ref"

\* the generator with the iterator object it reads in place
Deref(h, g) == IF Shares(g) THEN [g EXCEPT !.gs[1].it = h[g.gs[1].it.at]] ELSE g

\* a consumer calls next() on its generator of choices of one sequence: what
\* the call does to the iterator object is done to the heap cell
PullChoice(c) ==
    /\ c \in users
    /\ gen[c] # 0
    /\ ~ended[c]
    /\ raised[c] = "none"
    /\ Len(seen[c]) < MaxPull
    /\ LET g == heap[gen[c]]
           r == Next(Deref(heap, g))
       IN  /\ heap' = IF Shares(g)
                      THEN [heap EXCEPT ![gen[c]] = [r.g EXCEPT !.gs[1].it = g.gs[1].it],
                                        ![g.gs[1].it.at] = r.g.gs[1].it]
                      ELSE [heap EXCEPT ![gen[c]] = r.g]
           /\ seen' = [seen EXCEPT ![c] = IF r.stop THEN @ ELSE Append(@, r.val)]
           /\ ended' = [ended EXCEPT ![c] = r.stop /\ r.err = "none"]
           /\ raised' = [raised EXCEPT ![c] = r.err]
    /\ UNCHANGED <<enum, users, gen, registryVars, driverVars>>

NextChoices ==
    \/ \E c \in Consumers : OpenTiers(c)
    \/ \E c \in Consumers : PullChoice(c)

SpecChoices == InitChoices /\ [][NextChoices]_vars

RECURSIVE ValuesFrom(_, _)
\* list(itertools.islice(it, n))
ValuesFrom(it, n) ==
    IF n = 0 THEN <<>>
    ELSE LET r == VNext(it) IN
         IF r.stop THEN <<>> ELSE <<r.val>> \o ValuesFrom(r.g, n - 1)

\* the first values of the sequence choices was given
SequenceOf(obj) ==
    CASE obj.kind = "callable" -> ValuesFrom(CallGen(obj.fn), MaxPull)
      [] OTHER -> obj.xs

\* C29: an enumerator made by choices of one sequence gives tier i = [seq[i]]
\* to every iteration of it, the sequence being a list, a range, a generator
\* function or an iterator object made before: a second iteration sees the
\* tiers the first sees
C29_ChoicesRepeatable ==
    \A c \in users : \A s \in {SequenceOf(enum.iis[1])} :
        /\ Len(seen[c]) <= Len(s)
        /\ \A i \in 1..Len(seen[c]) : seen[c][i] = <<s[i]>>
        /\ ended[c] => Len(seen[c]) = Len(s)

\* ------------------------------------------------------------- fusc
\* fusc(n) is called: a, b = 1, 0
CallFusc(n) ==
    /\ frame.pc \in {"none", "done"}
    /\ frame' = [arg |-> n, n |-> n, a |-> 1, b |-> 0, pc |-> "while", ret |-> 0]
    /\ UNCHANGED <<streamVars, registryVars, checked, shown, imported>>

\* a slip: the branches of the loop the other way round
FuscStepSwapped ==
    /\ frame.pc = "while"
    /\ frame' =
          IF frame.n = 0 THEN [frame EXCEPT !.pc = "done", !.ret = frame.b]
          ELSE IF frame.n % 2 = 0
          THEN [frame EXCEPT !.b = frame.b + frame.a, !.n = frame.n \div 2]
          ELSE [frame EXCEPT !.a = frame.a + frame.b, !.n = frame.n \div 2]
    /\ UNCHANGED <<streamVars, registryVars, checked, shown, imported>>

\* one test of while n, and the round of the loop or the return after it
FuscStep ==
    /\ frame.pc = "while"
    /\ frame' =
          IF frame.n = 0 THEN [frame EXCEPT !.pc = "done", !.ret = frame.b]
          ELSE IF frame.n % 2 = 0
          THEN [frame EXCEPT !.a = frame.a + frame.b, !.n = frame.n \div 2]
          ELSE [frame EXCEPT !.b = frame.b + frame.a, !.n = frame.n \div 2]
    /\ UNCHANGED <<streamVars, registryVars, checked, shown, imported>>

NextFusc ==
    \/ \E n \in 0..MaxFusc : CallFusc(n)
    \/ FuscStep

SpecFusc == InitRegistry /\ [][NextFusc]_vars /\ WF_vars(FuscStep)

RECURSIVE BitsOf(_)
\* the bits of n, the most significant first
BitsOf(n) == IF n = 0 THEN <<>> ELSE Append(BitsOf(n \div 2), n % 2)

RECURSIVE ScanBits(_, _, _)
\* the accumulators over the bits in the order given: on 0, a += b; on 1,
\* b += a; b at the end
ScanBits(bits, a, b) ==
    IF bits = <<>> THEN b
    ELSE IF Head(bits) = 0 THEN ScanBits(Tail(bits), a + b, b)
    ELSE ScanBits(Tail(bits), a, b + a)

RECURSIVE Stern(_)
\* fusc(0) = 0, fusc(1) = 1, fusc(2m) = fusc(m), fusc(2m+1) = fusc(m) + fusc(m+1)
Stern(n) ==
    IF n < 2 THEN n
    ELSE IF n % 2 = 0 THEN Stern(n \div 2)
    ELSE Stern(n \div 2) + Stern(n \div 2 + 1)

\* the first values of the sequence
SternValues == <<0, 1, 1, 2, 1, 3, 2, 3, 1, 4, 3, 5, 2, 5, 3, 4>>

\* what a call of fusc that has returned has returned
FuscReturns ==
    frame.pc = "done" =>
        /\ frame.ret = ScanBits(BitsOf(frame.arg), 1, 0)
        /\ frame.ret = Stern(frame.arg)
        /\ frame.ret = fusc(frame.arg)
        /\ frame.arg < Len(SternValues) => frame.ret = SternValues[frame.arg + 1]

\* C30: fusc(n), computed with the accumulators (a, b) = (1, 0) over the
\* bits of n from the least significant, returns what the same accumulators
\* give over the bits from the most significant, which is the value of the
\* Stern sequence at n (0, 1, 1, 2, 1, 3, 2, 3, 1, 4, 3, 5, 2, 5, 3, 4, ...),
\* and every call returns
C30_FuscAgrees == []FuscReturns /\ (frame.pc = "while" ~> frame.pc = "done")

\* fusc(11) has returned 5: the bits of 11 are not the same in both orders
C30_Witness == frame.pc = "done" /\ frame.arg = 11 /\ frame.ret = 5

====
